---- MODULE Spec2Model ----
(***************************************************************************)
(* Rail booking ledger: the in-memory BookingSystem (booking_system.py)    *)
(* and the database-backed BookingSystem (booking_system_v3.py over        *)
(* database.py).  One of the two is deployed (variable ledger); book_trip  *)
(* and get_trips_by_client are modelled for both.                          *)
(***************************************************************************)
EXTENDS Integers, Sequences, FiniteSets, TLC

\* ------------------------------------------------------------------ bounds
MaxTravelers == 2   \* longest traveler list passed to book_trip
MaxCalls == 2       \* book_trip calls in one run
MaxTime == 2        \* last instant of the logical clock
TicksPerDay == 2    \* clock instants per calendar day
TripIdSpace == 2    \* values of secrets.token_hex(4) (2^32 in the code)
RandRange == 2      \* values of secrets.randbelow(100000)
NumProcs == 2       \* concurrent callers of book_trip

\* ------------------------------------------------------------------ inputs
\* Last names: an ASCII pair and a non-ASCII pair that differ only in case.
LastNames == {"lee", "LEE", "öz", "ÖZ"}

\* Traveler tuples (first, last, id, age) as passed to book_trip.
Travelers ==
  { <<"Al", "lee", "P1", 30>>, <<"Bo", "LEE", "P1", 31>>,
    <<"Al", "lee", "P2", 30>>,
    <<"Al", "öz", "P1", 30>>, <<"Al", "ÖZ", "P1", 30>>,
    <<"", "lee", "P1", 30>>, <<"Al", "lee", "", 30>>,
    <<"Al", "lee", "P1", -1>> }

TravelerLists == UNION { [1..n -> Travelers] : n \in 0..MaxTravelers }

\* Route ids of the loaded RailNetwork; R3 is absent from the database's
\* routes table (Database.load_routes_from_csv is a separate load).
RouteIds == {"R1", "R2", "R3"}
DbRoutes == {"R1", "R2"}

\* Itineraries offered for booking, as ordered route-id sequences.
Connections == { <<"R1">>, <<"R1", "R2">>, <<"R1", "R3">> }

\* ------------------------------------------------------------------ search and layover inputs
MaxRoutes == 2      \* length of the enumerated schedules
MaxSearches == 3    \* searches in one run
MaxLegs == 3        \* legs of an enumerated connection
MaxRows == 2        \* rows of an enumerated schedule file
MaxStoreCalls == 5  \* storage calls in one run
MaxTransfers == 3   \* transfers in a multi-stop validation

\* ------------------------------------------------------------------ state
VARIABLES
  ledger,              \* "mem": booking_system.BookingSystem, "db": booking_system_v3
  trips,               \* BookingSystem.trips: trip_id -> Trip
  client_trips_index,  \* BookingSystem.client_trips_index: key -> set of trip ids
  clients,             \* BookingSystem.clients
  db,                  \* Database tables: clients, trips, trip_legs, tickets, seq
  now,                 \* datetime.now(), in clock instants
  calls,               \* book_trip calls made so far
  last,                \* outcome of the latest call
  procs,               \* concurrent book_trip callers: position and locals
  network,             \* RailNetwork: routes and index_by_origin
  context              \* BookingStateMachine.context: the BookingContext

vars == <<ledger, trips, client_trips_index, clients, db, now, calls, last, procs,
          network, context>>

\* ------------------------------------------------------------------ Client
\* str.lower(): Unicode-aware case folding.
lower(s) ==
  CASE s = "LEE" -> "lee"
    [] s = "ÖZ" -> "öz"
    [] s = "Paris" -> "paris"
    [] s = "Frankfurt" -> "frankfurt"
    [] s = "Munich" -> "munich"
    [] s = "Berlin" -> "berlin"
    [] s = "ICE" -> "ice"
    [] s = "TGV" -> "tgv"
    [] s = "Daily" -> "daily"
    [] s = "Mon,Wed" -> "mon,wed"
    [] s = "First" -> "first"
    [] s = "FIRST class" -> "first class"
    [] OTHER -> s

\* The characters of a travel-class name.
chars(s) ==
  CASE s = "" -> <<>>
    [] s = "fir" -> <<"f", "i", "r">>
    [] s = "first" -> <<"f", "i", "r", "s", "t">>
    [] s = "first class" -> <<"f", "i", "r", "s", "t", " ", "c", "l", "a", "s", "s">>
    [] s = " first" -> <<" ", "f", "i", "r", "s", "t">>
    [] s = "second" -> <<"s", "e", "c", "o", "n", "d">>
    [] s = "business" -> <<"b", "u", "s", "i", "n", "e", "s", "s">>
    [] s = "First" -> <<"F", "i", "r", "s", "t">>
    [] s = "FIRST class" -> <<"F", "I", "R", "S", "T", " ", "c", "l", "a", "s", "s">>

\* str.startswith
startswith(s, prefix) ==
  LET c == chars(s)
      p == chars(prefix)
  IN Len(p) <= Len(c) /\ SubSeq(c, 1, Len(p)) = p

\* SQLite's built-in LOWER(): folds ASCII letters only.
LOWER(s) ==
  CASE s = "LEE" -> "lee"
    [] s = "ÖZ" -> "Öz"
    [] OTHER -> s

Client(t) == [first_name |-> t[1], last_name |-> t[2], id_number |-> t[3], age |-> t[4]]

\* Client.__post_init__: the rule violated, or "ok".
post_init(t) ==
  IF t[4] < 0 THEN "Invalid age"
  ELSE IF t[1] = "" \/ t[2] = "" THEN "Names cannot be empty"
  ELSE IF t[3] = "" THEN "ID number cannot be empty"
  ELSE "ok"

\* Variant: the first name takes part in the comparison.
client_eq_with_first_name(c, d) ==
  /\ lower(c.last_name) = lower(d.last_name)
  /\ c.id_number = d.id_number
  /\ c.first_name = d.first_name

\* Client.__eq__
client_eq(c, d) ==
  lower(c.last_name) = lower(d.last_name) /\ c.id_number = d.id_number

\* The index key (last_name.lower(), id_number).
key_of(c) == <<lower(c.last_name), c.id_number>>

\* Client.__hash__: the hash of the tuple (last_name.lower(), id_number);
\* equal tuples hash alike.
client_hash(c) == <<"hash", <<lower(c.last_name), c.id_number>>>>

\* set.add on a set of Clients: an equal member is kept, not replaced.
set_add(S, c) == IF \E d \in S : client_eq(d, c) THEN S ELSE S \cup {c}


\* ------------------------------------------------------------------ domain objects
\* Itinerary: the ordered route ids of its legs (other route fields play no
\* part in booking).
Ticket(ticket_id, client, connection, ts) ==
  [ticket_id |-> ticket_id, client |-> client, connection |-> connection,
   issue_timestamp |-> ts]

Reservation(client, ticket) == [client |-> client, ticket |-> ticket]

Trip(trip_id, connection, reservations, ts) ==
  [trip_id |-> trip_id, connection |-> connection,
   reservations |-> reservations, booking_timestamp |-> ts]

\* Trip.is_past: the booking date precedes the reference date.
date(ts) == ts \div TicksPerDay
\* Variant: a trip booked on the reference date counts as past.
is_past_inclusive(trip, today) == date(trip.booking_timestamp) <= today

is_past(trip, today) == date(trip.booking_timestamp) < today

\* ------------------------------------------------------------------ time helpers
MaxDayOffset == 2   \* largest (+Nd) marker in a time text

\* A time text is <<hour, minute, day offset>>: the numbers the patterns of
\* parse_time_to_minutes extract from it.
parse_time_to_minutes(t) == t[1] * 60 + t[2] + t[3] * 24 * 60

duration_minutes(dep_min, arr_min) ==
  IF arr_min >= dep_min THEN arr_min - dep_min
  ELSE (arr_min + 24 * 60) - dep_min

\* ------------------------------------------------------------------ LayoverValidator
DAY_START == 6 * 60
DAY_END == 22 * 60
DAYTIME_MIN == 15
DAYTIME_MAX == 120
NIGHT_MIN == 15
NIGHT_MAX == 30

\* The reason string: its fixed text and the numbers formatted into it.
Reason(kind, gap, limit, time_context) ==
  [kind |-> kind, gap |-> gap, limit |-> limit, context |-> time_context]

OK == Reason("OK", 0, 0, "")

\* Variant: the lenient daytime maximum is 90 minutes.
is_layover_acceptable_lenient_90(arrival_minutes, departure_minutes, policy) ==
  LET gap == IF departure_minutes >= arrival_minutes
             THEN departure_minutes - arrival_minutes
             ELSE (24 * 60 - arrival_minutes) + departure_minutes
      arrival_time_of_day == arrival_minutes % (24 * 60)
      is_daytime == DAY_START <= arrival_time_of_day /\ arrival_time_of_day < DAY_END
      min_gap == IF policy = "lenient" THEN DAYTIME_MIN
                 ELSE IF is_daytime THEN DAYTIME_MIN ELSE NIGHT_MIN
      max_gap == IF policy = "lenient"
                 THEN (IF is_daytime THEN 90 ELSE NIGHT_MAX)
                 ELSE IF is_daytime THEN DAYTIME_MAX ELSE NIGHT_MAX
  IN IF gap < min_gap
     THEN [accepted |-> FALSE, reason |-> Reason("Layover too short", gap, min_gap, "")]
     ELSE IF gap > max_gap
     THEN [accepted |-> FALSE,
           reason |-> Reason("Layover too long", gap, max_gap,
                             IF is_daytime THEN "daytime" ELSE "after-hours")]
     ELSE [accepted |-> TRUE, reason |-> OK]

\* Variant: an arrival at exactly 22:00 still counts as daytime.
is_layover_acceptable_day_end(arrival_minutes, departure_minutes, policy) ==
  LET gap == IF departure_minutes >= arrival_minutes
             THEN departure_minutes - arrival_minutes
             ELSE (24 * 60 - arrival_minutes) + departure_minutes
      arrival_time_of_day == arrival_minutes % (24 * 60)
      is_daytime == DAY_START <= arrival_time_of_day /\ arrival_time_of_day <= DAY_END
      min_gap == IF policy = "lenient" THEN DAYTIME_MIN
                 ELSE IF is_daytime THEN DAYTIME_MIN ELSE NIGHT_MIN
      max_gap == IF policy = "lenient"
                 THEN (IF is_daytime THEN 180 ELSE NIGHT_MAX)
                 ELSE IF is_daytime THEN DAYTIME_MAX ELSE NIGHT_MAX
  IN IF gap < min_gap
     THEN [accepted |-> FALSE, reason |-> Reason("Layover too short", gap, min_gap, "")]
     ELSE IF gap > max_gap
     THEN [accepted |-> FALSE,
           reason |-> Reason("Layover too long", gap, max_gap,
                             IF is_daytime THEN "daytime" ELSE "after-hours")]
     ELSE [accepted |-> TRUE, reason |-> OK]

\* LayoverValidator.is_layover_acceptable
is_layover_acceptable(arrival_minutes, departure_minutes, policy) ==
  LET gap == IF departure_minutes >= arrival_minutes
             THEN departure_minutes - arrival_minutes
             ELSE (24 * 60 - arrival_minutes) + departure_minutes
      arrival_time_of_day == arrival_minutes % (24 * 60)
      is_daytime == DAY_START <= arrival_time_of_day /\ arrival_time_of_day < DAY_END
      min_gap == IF policy = "lenient" THEN DAYTIME_MIN
                 ELSE IF is_daytime THEN DAYTIME_MIN ELSE NIGHT_MIN
      max_gap == IF policy = "lenient"
                 THEN (IF is_daytime THEN 180 ELSE NIGHT_MAX)
                 ELSE IF is_daytime THEN DAYTIME_MAX ELSE NIGHT_MAX
  IN IF gap < min_gap
     THEN [accepted |-> FALSE, reason |-> Reason("Layover too short", gap, min_gap, "")]
     ELSE IF gap > max_gap
     THEN [accepted |-> FALSE,
           reason |-> Reason("Layover too long", gap, max_gap,
                             IF is_daytime THEN "daytime" ELSE "after-hours")]
     ELSE [accepted |-> TRUE, reason |-> OK]

\* The loop of validate_multi_stop_connection from transfer i on: transfer 0
\* stands for no "Transfer N: " prefix.
RECURSIVE validate_from(_, _, _)
validate_from(leg_times, policy, i) ==
  IF i > Len(leg_times) THEN [accepted |-> TRUE, transfer |-> 0, reason |-> OK]
  ELSE LET r == is_layover_acceptable(leg_times[i][1], leg_times[i][2], policy)
       IN IF ~r.accepted
          THEN [accepted |-> FALSE, transfer |-> i, reason |-> r.reason]
          ELSE validate_from(leg_times, policy, i + 1)

\* Variant: the transfer is numbered from 0.
validate_multi_stop_connection_from_zero(leg_times, policy) ==
  LET r == validate_from(leg_times, policy, 1)
  IN IF r.accepted THEN r ELSE [r EXCEPT !.transfer = @ - 1]

\* LayoverValidator.validate_multi_stop_connection
validate_multi_stop_connection(leg_times, policy) ==
  validate_from(leg_times, policy, 1)

\* ------------------------------------------------------------------ rail network
\* TrainRoute and its __post_init__.
TrainRoute(route_id, departure_city, arrival_city, departure_time, arrival_time, train_type, days_of_operation, first_class_rate, second_class_rate) ==
  LET dep_min == parse_time_to_minutes(departure_time)
      arr_min == parse_time_to_minutes(arrival_time)
  IN [route_id |-> route_id, departure_city |-> departure_city,
      arrival_city |-> arrival_city, departure_time |-> departure_time,
      arrival_time |-> arrival_time, train_type |-> train_type,
      days_of_operation |-> days_of_operation,
      first_class_rate |-> first_class_rate,
      second_class_rate |-> second_class_rate,
      dep_min |-> dep_min, arr_min |-> arr_min,
      duration_min |-> duration_minutes(dep_min, arr_min)]

\* needle in hay, for the lower-cased day texts of the model.
contains(needle, hay) ==
  \/ needle = hay
  \/ <<needle, hay>> \in { <<"mon", "mon,wed">>, <<"wed", "mon,wed">>,
                          <<"d", "daily">>, <<"d", "mon,wed">> }

\* A time cell of a schedule file: the numeric tokens its text holds once the
\* (+Nd) marker is taken out, and the day offset of the marker.
TimeCell(tokens, day_offset) == [tokens |-> tokens, day_offset |-> day_offset]

\* parse_time_to_minutes on a cell: ValueError when the text holds no number,
\* else the first token as hours and the second, if any, as minutes.
parse_time_cell(cell) ==
  IF cell.tokens = <<>> THEN [raised |-> "ValueError", minutes |-> 0]
  ELSE [raised |-> "",
        minutes |-> parse_time_to_minutes(
                      <<cell.tokens[1],
                        IF Len(cell.tokens) > 1 THEN cell.tokens[2] ELSE 0,
                        cell.day_offset>>)]

\* TrainRoute(...) on a row of the file: __post_init__ parses both times.
route_of_row(row) ==
  LET dep == parse_time_cell(row.departure_time)
      arr == parse_time_cell(row.arrival_time)
  IN IF dep.raised # "" THEN [raised |-> dep.raised, text |-> row.departure_time]
     ELSE IF arr.raised # "" THEN [raised |-> arr.raised, text |-> row.arrival_time]
     ELSE [raised |-> "", text |-> <<>>,
           route |-> [route_id |-> row.route_id,
                      departure_city |-> row.departure_city,
                      arrival_city |-> row.arrival_city,
                      departure_time |-> row.departure_time,
                      arrival_time |-> row.arrival_time,
                      train_type |-> "ICE", days_of_operation |-> "Daily",
                      first_class_rate |-> 100, second_class_rate |-> 50,
                      dep_min |-> dep.minutes, arr_min |-> arr.minutes,
                      duration_min |-> duration_minutes(dep.minutes, arr.minutes)]]

\* RailNetwork.from_csv: the rows in file order; the first row whose
\* TrainRoute raises ends the load with that exception, whose message quotes
\* the time text.
RECURSIVE from_csv(_, _)
from_csv(rows, routes) ==
  IF rows = <<>> THEN [raised |-> "", text |-> <<>>, routes |-> routes]
  ELSE LET r == route_of_row(Head(rows))
       IN IF r.raised # "" THEN [raised |-> r.raised, text |-> r.text, routes |-> <<>>]
          ELSE from_csv(Tail(rows), Append(routes, r.route))

\* Database.load_routes_from_csv: DELETE FROM routes, then one INSERT per row
\* in a single transaction; the time texts are stored as they are.  A repeated
\* route_id breaks the primary key and rolls the transaction back.
load_routes_from_csv(d, rows) ==
  IF \E i, j \in DOMAIN rows : i # j /\ rows[i].route_id = rows[j].route_id
  THEN [raised |-> "IntegrityError", returned |-> 0, db |-> d]
  ELSE [raised |-> "", returned |-> Len(rows),
        db |-> [d EXCEPT !.routes = { rows[i].route_id : i \in DOMAIN rows }]]

\* RailNetwork.__init__: index_by_origin keeps the order of routes.
RailNetwork(routes) ==
  LET keys == { lower(routes[i].departure_city) : i \in DOMAIN routes }
  IN [routes |-> routes,
      index_by_origin |->
        [k \in keys |-> SelectSeq(routes, LAMBDA r : lower(r.departure_city) = k)]]

\* self.index_by_origin.get(key, [])
index_get(net, key) ==
  IF key \in DOMAIN net.index_by_origin THEN net.index_by_origin[key] ELSE <<>>

\* Variant: the train-type filter is not applied.
match_ignoring_type(r, dep_city, arr_city, train_type, day_contains) ==
  /\ ~(dep_city # "" /\ lower(r.departure_city) # lower(dep_city))
  /\ ~(arr_city # "" /\ lower(r.arrival_city) # lower(arr_city))
  /\ ~(day_contains # ""
       /\ ~contains(lower(day_contains), lower(r.days_of_operation)))

\* RailNetwork._match: "" stands for None (both are falsy).
match(r, dep_city, arr_city, train_type, day_contains) ==
  /\ ~(dep_city # "" /\ lower(r.departure_city) # lower(dep_city))
  /\ ~(arr_city # "" /\ lower(r.arrival_city) # lower(arr_city))
  /\ ~(train_type # "" /\ lower(r.train_type) # lower(train_type))
  /\ ~(day_contains # ""
       /\ ~contains(lower(day_contains), lower(r.days_of_operation)))

\* RailNetwork._transfer_gap_ok
transfer_gap_ok(r_prev, r_next, min_transfer_minutes) ==
  LET d == r_next.dep_min - r_prev.arr_min
      gap == IF d < 0 THEN d + 24 * 60 ELSE d
  IN gap >= min_transfer_minutes

\* The concatenation of a sequence of lists, in order (its.append in loops).
RECURSIVE flatten(_)
flatten(lists) ==
  IF lists = <<>> THEN <<>> ELSE Head(lists) \o flatten(Tail(lists))

\* RailNetwork._build_one_stop
build_one_stop(net, dep_city, arr_city, train_type, day_contains, min_transfer_minutes) ==
  LET dep_routes == SelectSeq(net.routes,
                      LAMBDA r : match(r, dep_city, "", train_type, day_contains))
      from(r1) ==
        LET mid == r1.arrival_city
            r2s == SelectSeq(index_get(net, lower(mid)),
                     LAMBDA r2 :
                       /\ match(r2, mid, arr_city, train_type, day_contains)
                       /\ transfer_gap_ok(r1, r2, min_transfer_minutes))
        IN [j \in 1..Len(r2s) |-> <<r1, r2s[j]>>]
  IN flatten([i \in 1..Len(dep_routes) |-> from(dep_routes[i])])

\* RailNetwork._build_two_stops
build_two_stops(net, dep_city, arr_city, train_type, day_contains, min_transfer_minutes) ==
  LET dep_routes == SelectSeq(net.routes,
                      LAMBDA r : match(r, dep_city, "", train_type, day_contains))
      last_leg(r1, r2) ==
        LET mid2 == r2.arrival_city
            r3s == SelectSeq(index_get(net, lower(mid2)),
                     LAMBDA r3 :
                       /\ match(r3, mid2, arr_city, train_type, day_contains)
                       /\ transfer_gap_ok(r2, r3, min_transfer_minutes))
        IN [j \in 1..Len(r3s) |-> <<r1, r2, r3s[j]>>]
      from(r1) ==
        LET mid1 == r1.arrival_city
            r2s == SelectSeq(index_get(net, lower(mid1)),
                     LAMBDA r2 :
                       /\ match(r2, mid1, "", train_type, day_contains)
                       /\ transfer_gap_ok(r1, r2, min_transfer_minutes))
        IN flatten([j \in 1..Len(r2s) |-> last_leg(r1, r2s[j])])
  IN flatten([i \in 1..Len(dep_routes) |-> from(dep_routes[i])])

\* Itinerary: the list of its legs' routes.
legs_key(it) == [i \in DOMAIN it |-> it[i].route_id]

\* Itinerary.displayed_transfer_minutes
RECURSIVE displayed_transfer_minutes(_)
displayed_transfer_minutes(it) ==
  IF Len(it) <= 1 THEN 0
  ELSE LET n == Len(it)
       IN displayed_transfer_minutes(SubSeq(it, 1, n - 1))
            + duration_minutes(it[n - 1].arr_min, it[n].dep_min)

\* Variant: the gaps between legs are not added.
RECURSIVE total_travel_minutes_without_gaps(_)
total_travel_minutes_without_gaps(it) ==
  IF it = <<>> THEN 0
  ELSE LET n == Len(it)
       IN total_travel_minutes_without_gaps(SubSeq(it, 1, n - 1)) + it[n].duration_min

\* Itinerary.total_travel_minutes
RECURSIVE total_travel_minutes(_)
total_travel_minutes(it) ==
  IF it = <<>> THEN 0
  ELSE LET n == Len(it)
       IN total_travel_minutes(SubSeq(it, 1, n - 1)) + it[n].duration_min
            + (IF n > 1 THEN duration_minutes(it[n - 1].arr_min, it[n].dep_min)
               ELSE 0)

\* Variant: first class only under the exact name "first".
RECURSIVE price_exact_name(_, _)
price_exact_name(it, travel_class) ==
  IF it = <<>> THEN 0
  ELSE (IF lower(travel_class) = "first" THEN Head(it).first_class_rate
        ELSE Head(it).second_class_rate)
       + price_exact_name(Tail(it), travel_class)

\* Itinerary.price
RECURSIVE price(_, _)
price(it, travel_class) ==
  IF it = <<>> THEN 0
  ELSE (IF startswith(lower(travel_class), "first") THEN Head(it).first_class_rate
        ELSE Head(it).second_class_rate)
       + price(Tail(it), travel_class)

\* Variant: the index lookup is setdefault(key, []), which adds the key.
network_after_search_setdefault(net, q) ==
  LET keys == DOMAIN net.index_by_origin
              \cup { lower(net.routes[i].arrival_city) : i \in DOMAIN net.routes }
  IN [net EXCEPT !.index_by_origin =
        [k \in keys |-> IF k \in DOMAIN net.index_by_origin
                         THEN net.index_by_origin[k] ELSE <<>>]]

\* self.routes and self.index_by_origin after search: the method only reads
\* them; it filters into new lists and sorts its own list of results.
network_after_search(net, q) == net

\* Variant: every itinerary is kept.
dedupe_keeping_all(results, seen) == results

\* search, the loop filling unique: the first itinerary of each legs_key.
RECURSIVE dedupe(_, _)
dedupe(results, seen) ==
  IF results = <<>> THEN <<>>
  ELSE LET k == legs_key(Head(results))
       IN IF k \in seen THEN dedupe(Tail(results), seen)
          ELSE <<Head(results)>> \o dedupe(Tail(results), seen \cup {k})

\* Variant: ascending, but items with equal keys come out in reverse order.
stable_sort_ties_reversed(items, keys) ==
  LET rank(j) == Cardinality({ k \in DOMAIN items :
                                 \/ keys[k] < keys[j]
                                 \/ (keys[k] = keys[j] /\ k > j) }) + 1
  IN [i \in DOMAIN items |-> items[CHOOSE j \in DOMAIN items : rank(j) = i]]

\* list.sort(key=...): ascending and stable; keys[i] is the key of items[i].
stable_sort(items, keys) ==
  LET rank(j) == Cardinality({ k \in DOMAIN items :
                                 \/ keys[k] < keys[j]
                                 \/ (keys[k] = keys[j] /\ k < j) }) + 1
  IN [i \in DOMAIN items |-> items[CHOOSE j \in DOMAIN items : rank(j) = i]]

\* Variant: one-stop itineraries are built only when max_stops is exactly 1.
search_exact_stops(net, q) ==
  LET direct == SelectSeq(net.routes,
                  LAMBDA r : match(r, q.departure_city, q.arrival_city,
                                   q.train_type, q.day_contains))
      chains == q.departure_city # "" /\ q.arrival_city # ""
      results ==
        [i \in DOMAIN direct |-> <<direct[i]>>]
        \o (IF q.max_stops = 1 /\ chains
            THEN build_one_stop(net, q.departure_city, q.arrival_city,
                                q.train_type, q.day_contains,
                                q.min_transfer_minutes)
            ELSE <<>>)
        \o (IF q.max_stops >= 2 /\ chains
            THEN build_two_stops(net, q.departure_city, q.arrival_city,
                                 q.train_type, q.day_contains,
                                 q.min_transfer_minutes)
            ELSE <<>>)
      unique == dedupe(results, {})
      keys == [i \in DOMAIN unique |->
                 IF q.sort_by = "price" THEN price(unique[i], q.travel_class)
                 ELSE total_travel_minutes(unique[i])]
  IN IF q.layover_policy # ""
     THEN [status |-> "TypeError", results |-> <<>>]
     ELSE [status |-> "ok", results |-> stable_sort(unique, keys)]

\* RailNetwork.search.  q.layover_policy = "" is a call that names no
\* layover_policy; the signature has no such parameter, so a call that names
\* one raises TypeError before the body runs.
search(net, q) ==
  LET direct == SelectSeq(net.routes,
                  LAMBDA r : match(r, q.departure_city, q.arrival_city,
                                   q.train_type, q.day_contains))
      chains == q.departure_city # "" /\ q.arrival_city # ""
      results ==
        [i \in DOMAIN direct |-> <<direct[i]>>]
        \o (IF q.max_stops >= 1 /\ chains
            THEN build_one_stop(net, q.departure_city, q.arrival_city,
                                q.train_type, q.day_contains,
                                q.min_transfer_minutes)
            ELSE <<>>)
        \o (IF q.max_stops >= 2 /\ chains
            THEN build_two_stops(net, q.departure_city, q.arrival_city,
                                 q.train_type, q.day_contains,
                                 q.min_transfer_minutes)
            ELSE <<>>)
      unique == dedupe(results, {})
      keys == [i \in DOMAIN unique |->
                 IF q.sort_by = "price" THEN price(unique[i], q.travel_class)
                 ELSE total_travel_minutes(unique[i])]
  IN IF q.layover_policy # ""
     THEN [status |-> "TypeError", results |-> <<>>]
     ELSE [status |-> "ok", results |-> stable_sort(unique, keys)]

\* ------------------------------------------------------------------ book_trip: checks
\* The parse loop of book_trip: construct, test against seen, append.
\* acc = [status, clients]; the loop stops at the first entry that raises.
RECURSIVE parse_travelers(_, _, _)
parse_travelers(travelers, i, acc) ==
  IF i > Len(travelers) THEN acc
  ELSE LET t == travelers[i]
           seen == { acc.clients[j] : j \in DOMAIN acc.clients }
       IN IF post_init(t) # "ok"
          THEN [acc EXCEPT !.status = "InvalidTraveler"]
          ELSE IF \E d \in seen : client_eq(d, Client(t))
          THEN [acc EXCEPT !.status = "DuplicateTravelerInBooking"]
          ELSE parse_travelers(travelers, i + 1,
                               [acc EXCEPT !.clients = Append(@, Client(t))])

\* Variant: every entry is validated before any is compared with the others.
parse_validating_first(travelers) ==
  IF travelers = <<>> THEN [status |-> "EmptyBooking", clients |-> <<>>]
  ELSE IF \E i \in DOMAIN travelers : post_init(travelers[i]) # "ok"
  THEN [status |-> "InvalidTraveler", clients |-> <<>>]
  ELSE parse_travelers(travelers, 1, [status |-> "ok", clients |-> <<>>])

parse(travelers) ==
  IF travelers = <<>> THEN [status |-> "EmptyBooking", clients |-> <<>>]
  ELSE parse_travelers(travelers, 1, [status |-> "ok", clients |-> <<>>])

\* self.clients.add(client) for every client the loop appended.
RECURSIVE register(_, _, _)
register(S, cl, i) ==
  IF i > Len(cl) THEN S ELSE register(set_add(S, cl[i]), cl, i + 1)

\* Variant: the same route ids in any order.
connections_equal_any_order(conn1, conn2) ==
  /\ Len(conn1) = Len(conn2)
  /\ { conn1[i] : i \in 1..Len(conn1) } = { conn2[i] : i \in 1..Len(conn2) }

\* BookingSystem._connections_equal: same route ids in the same order.
connections_equal(conn1, conn2) ==
  /\ Len(conn1) = Len(conn2)
  /\ \A i \in 1..Len(conn1) : conn1[i] = conn2[i]

\* booking_system.BookingSystem._has_booking_for_connection
has_booking_for_connection(client, connection) ==
  LET key == key_of(client)
      trip_ids == IF key \in DOMAIN client_trips_index
                  THEN client_trips_index[key] ELSE {}
  IN \E trip_id \in trip_ids :
       connections_equal(trips[trip_id].connection, connection)

\* ------------------------------------------------------------------ id generation
TrpHex == <<"TRP-00000000", "TRP-00000001", "TRP-00000002", "TRP-00000003">>

\* generate_trip_id: "TRP-" and 8 random hex digits; n is the random draw.
generate_trip_id(n) == TrpHex[n + 1]

\* generate_ticket_id: timestamp part and random part r.
generate_ticket_id(ts, r) == ts * RandRange + r

\* ------------------------------------------------------------------ outcomes
NoCall ==
  [op |-> "none", connection |-> <<>>, travelers |-> <<>>, status |-> "none",
   returned |-> <<>>]

BookOutcome(connection, travelers, status, returned) ==
  [NoCall EXCEPT !.op = "book_trip", !.connection = connection,
                 !.travelers = travelers, !.status = status,
                 !.returned = returned]


\* ------------------------------------------------------------------ in-memory ledger
\* Variant: every ticket is issued to the first client of the booking.
build_trip_first_client(connection, cl, n, rnd, ts) ==
  Trip(generate_trip_id(n), connection,
       [i \in 1..Len(cl) |->
          Reservation(cl[i],
                      Ticket(generate_ticket_id(ts, rnd[i]), cl[1], connection, ts))],
       ts)

\* book_trip, "Generate trip and tickets": one ticket per client, in order.
build_trip(connection, cl, n, rnd, ts) ==
  Trip(generate_trip_id(n), connection,
       [i \in 1..Len(cl) |->
          Reservation(cl[i],
                      Ticket(generate_ticket_id(ts, rnd[i]), cl[i], connection, ts))],
       ts)

\* self.trips[trip_id] = trip
store_trip(T, trip) ==
  [id \in DOMAIN T \cup {trip.trip_id} |->
     IF id = trip.trip_id THEN trip ELSE T[id]]

\* self.client_trips_index.setdefault(key, set()).add(trip_id), per client
index_trip(I, cl, trip_id) ==
  LET keys == { key_of(cl[i]) : i \in DOMAIN cl }
  IN [k \in DOMAIN I \cup keys |->
        (IF k \in DOMAIN I THEN I[k] ELSE {})
          \cup (IF k \in keys THEN {trip_id} ELSE {})]

\* booking_system.BookingSystem.book_trip, the whole call.  The draws of the
\* random generator (trip id, ticket ids) are taken where the code takes them.
BookMem(connection, travelers) ==
  LET p == parse(travelers)
      cl == p.clients
      booked == \E i \in DOMAIN cl : has_booking_for_connection(cl[i], connection)
  IN /\ ledger = "mem"
     /\ calls < MaxCalls
     /\ calls' = calls + 1
     /\ clients' = register(clients, cl, 1)
     /\ IF p.status # "ok"
        THEN /\ last' = BookOutcome(connection, travelers, p.status, <<>>)
             /\ UNCHANGED <<trips, client_trips_index>>
        ELSE IF booked
        THEN /\ last' = BookOutcome(connection, travelers, "AlreadyBooked", <<>>)
             /\ UNCHANGED <<trips, client_trips_index>>
        ELSE \E n \in 0..(TripIdSpace - 1),
                rnd \in [1..Len(cl) -> 0..(RandRange - 1)] :
               LET trip == build_trip(connection, cl, n, rnd, now)
               IN /\ trips' = store_trip(trips, trip)
                  /\ client_trips_index' =
                       index_trip(client_trips_index, cl, trip.trip_id)
                  /\ last' = BookOutcome(connection, travelers, "ok", <<trip>>)
     /\ UNCHANGED <<ledger, db, now, procs, network, context>>

\* ------------------------------------------------------------------ Database
\* Rows carry the columns that booking reads; a result is [ok, db, id].
\* Database.connection: the writes of one block commit when the block ends
\* normally and are rolled back when it raises.
with_connection(d, res) == IF res.ok THEN res ELSE [ok |-> FALSE, db |-> d, id |-> 0]

\* SELECT client_id FROM clients WHERE LOWER(last_name) = LOWER(?) AND id_number = ?
\* fetchone(): 0 stands for None.
get_client_by_credentials(d, last_name, id_number) ==
  LET rows == { r \in d.clients :
                  LOWER(r.last_name) = LOWER(last_name) /\ r.id_number = id_number }
  IN IF rows = {} THEN 0
     ELSE (CHOOSE r \in rows : \A q \in rows : r.client_id <= q.client_id).client_id

\* Database.get_or_create_client; fault: the storage engine raises.  The
\* INSERT is refused by CHECK(age >= 0).
get_or_create_client(d, c, fault) ==
  LET found == get_client_by_credentials(d, c.last_name, c.id_number)
      id == d.seq.clients + 1
      row == [client_id |-> id, first_name |-> c.first_name,
              last_name |-> c.last_name, id_number |-> c.id_number, age |-> c.age]
  IN with_connection(d,
       IF fault THEN [ok |-> FALSE, db |-> d, id |-> 0]
       ELSE IF found # 0 THEN [ok |-> TRUE, db |-> d, id |-> found]
       ELSE IF c.age < 0 THEN [ok |-> FALSE, db |-> d, id |-> 0]
       ELSE [ok |-> TRUE, id |-> id,
             db |-> [d EXCEPT !.clients = @ \cup {row}, !.seq.clients = id]])

\* Database.create_trip: INSERT INTO trips, AUTOINCREMENT trip_id.
create_trip(d, ts, fault) ==
  LET id == d.seq.trips + 1
  IN with_connection(d,
       IF fault THEN [ok |-> FALSE, db |-> d, id |-> 0]
       ELSE [ok |-> TRUE, id |-> id,
             db |-> [d EXCEPT
                       !.trips = @ \cup {[trip_id |-> id, booking_timestamp |-> ts]},
                       !.seq.trips = id]])

\* Database.add_trip_leg: the foreign keys (trip_id, route_id) and
\* UNIQUE(trip_id, leg_order) are enforced by the engine.
add_trip_leg(d, trip_id, route_id, leg_order, fault) ==
  LET legal == /\ \E t \in d.trips : t.trip_id = trip_id
               /\ route_id \in d.routes
               /\ ~ \E l \in d.trip_legs :
                      l.trip_id = trip_id /\ l.leg_order = leg_order
  IN with_connection(d,
       IF fault \/ ~legal THEN [ok |-> FALSE, db |-> d, id |-> 0]
       ELSE [ok |-> TRUE, id |-> 0,
             db |-> [d EXCEPT !.trip_legs = @ \cup
                       {[trip_id |-> trip_id, route_id |-> route_id,
                         leg_order |-> leg_order]}]])

\* Database.create_ticket: INSERT INTO tickets, AUTOINCREMENT ticket_id.
create_ticket(d, client_id, trip_id, ts, fault) ==
  LET id == d.seq.tickets + 1
      legal == /\ \E c \in d.clients : c.client_id = client_id
               /\ \E t \in d.trips : t.trip_id = trip_id
  IN with_connection(d,
       IF fault \/ ~legal THEN [ok |-> FALSE, db |-> d, id |-> 0]
       ELSE [ok |-> TRUE, id |-> id,
             db |-> [d EXCEPT
                       !.tickets = @ \cup
                         {[ticket_id |-> id, client_id |-> client_id,
                           trip_id |-> trip_id, issue_timestamp |-> ts]},
                       !.seq.tickets = id]])

\* Variant: the trips row alone is deleted.
delete_trip_without_cascade(d, trip_id) ==
  [d EXCEPT !.trips = { t \in @ : t.trip_id # trip_id }]

\* DELETE FROM trips WHERE trip_id = ?, with the schema's ON DELETE CASCADE on
\* trip_legs.trip_id and tickets.trip_id and foreign keys switched on.
delete_trip(d, trip_id) ==
  [d EXCEPT !.trips = { t \in @ : t.trip_id # trip_id },
            !.trip_legs = { l \in @ : l.trip_id # trip_id },
            !.tickets = { k \in @ : k.trip_id # trip_id }]

\* Database.get_trips_for_client: the trips joined to the client's tickets.
get_trips_for_client(d, client_id) ==
  { t \in d.trips :
      \E tk \in d.tickets : tk.trip_id = t.trip_id /\ tk.client_id = client_id }

\* Variant: the legs are listed by descending leg_order.
get_trip_legs_descending(d, trip_id) ==
  LET rows == { l \in d.trip_legs : l.trip_id = trip_id /\ l.route_id \in d.routes }
  IN [i \in 1..Cardinality(rows) |->
        (CHOOSE l \in rows :
           Cardinality({ m \in rows : m.leg_order > l.leg_order }) = i - 1).route_id]

\* Database.get_trip_legs: the trip's legs joined to routes, by leg_order.
get_trip_legs(d, trip_id) ==
  LET rows == { l \in d.trip_legs : l.trip_id = trip_id /\ l.route_id \in d.routes }
  IN [i \in 1..Cardinality(rows) |->
        (CHOOSE l \in rows :
           Cardinality({ m \in rows : m.leg_order < l.leg_order }) = i - 1).route_id]

\* ------------------------------------------------------------------ database-backed ledger
\* booking_system_v3.BookingSystem._has_booking_for_connection
has_booking_for_connection_v3(d, client, conn) ==
  LET client_id == get_client_by_credentials(d, client.last_name, client.id_number)
  IN /\ client_id # 0
     /\ \E t \in get_trips_for_client(d, client_id) :
          get_trip_legs(d, t.trip_id) = conn

\* The storage writes of one book_trip call, in program order: create_trip,
\* add_trip_leg per leg, then get_or_create_client and create_ticket per client.
writes(conn, cl) ==
  <<[op |-> "create_trip", i |-> 0]>>
    \o [i \in 1..Len(conn) |-> [op |-> "add_trip_leg", i |-> i]]
    \o [j \in 1..(2 * Len(cl)) |->
          IF j % 2 = 1 THEN [op |-> "get_or_create_client", i |-> (j + 1) \div 2]
          ELSE [op |-> "create_ticket", i |-> j \div 2]]

\* One storage write of book_trip.  r = [db, ok, trip_id, client_id, ticket_ids]
\* holds the store and the call's locals.
exec(r, w, conn, cl, ts, fault) ==
  CASE w.op = "create_trip" ->
         LET res == create_trip(r.db, ts, fault)
         IN [r EXCEPT !.db = res.db, !.ok = res.ok, !.trip_id = res.id]
    [] w.op = "add_trip_leg" ->
         LET res == add_trip_leg(r.db, r.trip_id, conn[w.i], w.i - 1, fault)
         IN [r EXCEPT !.db = res.db, !.ok = res.ok]
    [] w.op = "get_or_create_client" ->
         LET res == get_or_create_client(r.db, cl[w.i], fault)
         IN [r EXCEPT !.db = res.db, !.ok = res.ok, !.client_id = res.id]
    [] w.op = "create_ticket" ->
         LET res == create_ticket(r.db, r.client_id, r.trip_id, ts, fault)
         IN [r EXCEPT !.db = res.db, !.ok = res.ok,
                      !.ticket_ids = IF res.ok THEN Append(@, res.id) ELSE @]

\* The writes from the k-th on, stopping at the first that raises; the
\* fault_at-th write meets a storage fault (0: none does).
RECURSIVE run_writes(_, _, _, _, _, _, _)
run_writes(r, ws, k, conn, cl, ts, fault_at) ==
  IF k > Len(ws) \/ ~r.ok THEN r
  ELSE run_writes(exec(r, ws[k], conn, cl, ts, k = fault_at),
                  ws, k + 1, conn, cl, ts, fault_at)

\* _has_booking_for_connection: trip_route_ids == connection_route_ids, the
\* stored legs of a trip against the legs of an itinerary.
route_ids_equal(d, trip_id, connection) ==
  LET trip_route_ids == get_trip_legs(d, trip_id)
      connection_route_ids == [i \in 1..Len(connection) |-> connection[i]]
  IN /\ Len(trip_route_ids) = Len(connection_route_ids)
     /\ \A i \in 1..Len(trip_route_ids) :
          trip_route_ids[i] = connection_route_ids[i]

\* book_trip, "Build domain objects": the returned Trip.
build_trip_v3(conn, cl, r, ts) ==
  Trip(r.trip_id, conn,
       [i \in 1..Len(cl) |->
          Reservation(cl[i], Ticket(r.ticket_ids[i], cl[i], conn, ts))],
       ts)

\* booking_system_v3.BookingSystem.book_trip, the whole call.
BookDb(conn, travelers) ==
  LET p == parse(travelers)
      cl == p.clients
      booked == \E i \in DOMAIN cl : has_booking_for_connection_v3(db, cl[i], conn)
      ws == writes(conn, cl)
      r0 == [db |-> db, ok |-> TRUE, trip_id |-> 0, client_id |-> 0,
             ticket_ids |-> <<>>]
  IN /\ ledger = "db"
     /\ calls < MaxCalls
     /\ calls' = calls + 1
     /\ IF p.status # "ok"
        THEN /\ last' = BookOutcome(conn, travelers, p.status, <<>>)
             /\ UNCHANGED db
        ELSE IF booked
        THEN /\ last' = BookOutcome(conn, travelers, "AlreadyBooked", <<>>)
             /\ UNCHANGED db
        ELSE \E fault_at \in 0..Len(ws) :
               LET r == run_writes(r0, ws, 1, conn, cl, now, fault_at)
               IN /\ db' = r.db
                  /\ last' = IF r.ok
                             THEN BookOutcome(conn, travelers, "ok",
                                              <<build_trip_v3(conn, cl, r, now)>>)
                             ELSE BookOutcome(conn, travelers,
                                              "PersistenceFailure", <<>>)
     /\ UNCHANGED <<ledger, trips, client_trips_index, clients, now, procs, network, context>>

\* ------------------------------------------------------------------ trips of a client
\* list.sort(key=booking_timestamp, reverse=True) over a collection of trips;
\* the order among equal timestamps is whatever the collection yields.
RECURSIVE sort_desc(_)
sort_desc(S) ==
  IF S = {} THEN <<>>
  ELSE LET m == CHOOSE t \in S :
                  \A u \in S : u.booking_timestamp <= t.booking_timestamp
       IN <<m>> \o sort_desc(S \ {m})

\* The split into (current, past) by Trip.is_past(date.today()), each sorted.
split_trips(S) ==
  [current |-> sort_desc({ t \in S : ~is_past(t, date(now)) }),
   past |-> sort_desc({ t \in S : is_past(t, date(now)) })]

\* booking_system.BookingSystem.get_trips_by_client
get_trips_by_client(last_name, id_number) ==
  LET key == <<lower(last_name), id_number>>
      trip_ids == IF key \in DOMAIN client_trips_index
                  THEN client_trips_index[key] ELSE {}
  IN split_trips({ trips[trip_id] : trip_id \in trip_ids })

\* Database.get_tickets_for_trip: the trip's tickets joined to their clients,
\* in rowid order.
get_tickets_for_trip(d, trip_id) ==
  LET rows == { tk \in d.tickets :
                  tk.trip_id = trip_id
                  /\ \E c \in d.clients : c.client_id = tk.client_id }
      nth(i) == CHOOSE tk \in rows :
                  Cardinality({ u \in rows : u.ticket_id < tk.ticket_id }) = i - 1
  IN [i \in 1..Cardinality(rows) |->
        LET c == CHOOSE c \in d.clients : c.client_id = nth(i).client_id
        IN [ticket_id |-> nth(i).ticket_id,
            issue_timestamp |-> nth(i).issue_timestamp,
            first_name |-> c.first_name, last_name |-> c.last_name,
            id_number |-> c.id_number, age |-> c.age]]

\* booking_system_v3.BookingSystem._reconstruct_trip: <<trip>>, or <<>> for
\* None (no such trip row, or no legs).
reconstruct_trip(d, trip_id) ==
  LET rows == { t \in d.trips : t.trip_id = trip_id }
      legs == get_trip_legs(d, trip_id)
      tks == get_tickets_for_trip(d, trip_id)
      client(i) == Client(<<tks[i].first_name, tks[i].last_name,
                            tks[i].id_number, tks[i].age>>)
  IN IF rows = {} \/ legs = <<>> THEN <<>>
     ELSE <<Trip(trip_id, legs,
                 [i \in 1..Len(tks) |->
                    Reservation(client(i),
                                Ticket(tks[i].ticket_id, client(i), legs,
                                       tks[i].issue_timestamp))],
                 (CHOOSE t \in rows : TRUE).booking_timestamp)>>

\* booking_system_v3.BookingSystem.get_trips_by_client
get_trips_by_client_v3(d, last_name, id_number) ==
  LET client_id == get_client_by_credentials(d, last_name, id_number)
      found == IF client_id = 0 THEN {}
               ELSE { t.trip_id : t \in get_trips_for_client(d, client_id) }
  IN split_trips(UNION { { reconstruct_trip(d, id)[i] :
                             i \in DOMAIN reconstruct_trip(d, id) } : id \in found })

\* ------------------------------------------------------------------ schedules and queries
T1 == TrainRoute("R001", "Paris", "Berlin", <<8, 30, 0>>, <<16, 45, 0>>, "ICE", "Daily", 150, 89)
T2 == TrainRoute("R002", "Paris", "Frankfurt", <<8, 0, 0>>, <<12, 0, 0>>, "ICE", "Daily", 100, 60)
T3 == TrainRoute("R003", "Frankfurt", "Berlin", <<13, 0, 0>>, <<17, 0, 0>>, "ICE", "Daily", 80, 50)
T4 == TrainRoute("R004", "Paris", "Munich", <<9, 0, 0>>, <<14, 0, 0>>, "ICE", "Daily", 120, 70)
T5 == TrainRoute("R005", "Munich", "Berlin", <<17, 0, 0>>, <<21, 0, 0>>, "ICE", "Daily", 90, 55)
U6 == TrainRoute("R006", "frankfurt", "Munich", <<12, 20, 0>>, <<15, 0, 0>>, "TGV", "Mon,Wed", 40, 30)
U7 == TrainRoute("R001", "Paris", "Berlin", <<10, 0, 0>>, <<18, 15, 0>>, "TGV", "Mon,Wed", 150, 89)
U8 == TrainRoute("R008", "Paris", "Berlin", <<8, 0, 2>>, <<9, 0, 0>>, "ICE", "Daily", 10, 5)
U9 == TrainRoute("R009", "Frankfurt", "Berlin", <<12, 10, 0>>, <<16, 10, 0>>, "ICE", "Daily", 80, 50)
U10 == TrainRoute("R010", "Paris", "Berlin", <<9, 0, 0>>, <<17, 15, 0>>, "ICE", "Daily", 150, 89)

\* The network of TestRailNetworkWithLayover.setUp.
TestRoutes == <<T1, T2, T3, T4, T5>>

\* A network with a two-stop chain, a repeated route id, equal durations and
\* equal fares.
MixedRoutes == <<T2, U6, T5, T1, U7, U10, T3, U9>>

Routes == {T1, T2, T3, T4, T5, U6, U7, U8, U9, U10}

Schedules ==
  {TestRoutes, MixedRoutes} \cup UNION { [1..n -> Routes] : n \in 0..MaxRoutes }

Queries ==
  [departure_city : {"", "paris"}, arrival_city : {"", "Berlin"},
   train_type : {"", "ice"}, day_contains : {"", "mon"},
   max_stops : 0..3, min_transfer_minutes : {15, 90},
   travel_class : {"first", "second"}, sort_by : {"duration", "price"},
   layover_policy : {"", "strict", "lenient"}]

TimesOfDay == {0, 359, 360, 600, 1319, 1320, 1439}
Gaps == {0, 14, 15, 16, 29, 30, 31, 119, 120, 121, 179, 180, 181, 1439}
Arrivals == { t + 24 * 60 * k : t \in TimesOfDay, k \in 0..MaxDayOffset }

\* (arrival, departure) pairs: each gap, with the departure on the arrival's
\* day count or on an earlier one.
Transfers ==
  { <<a, a + g - 24 * 60 * k>> : a \in Arrivals, g \in Gaps, k \in 0..MaxDayOffset }
    \cap (Nat \X Nat)

Policies == {"strict", "lenient"}

TransferSamples ==
  { <<600, 660>>, <<600, 800>>, <<600, 601>>, <<600, 760>>, <<1380, 1425>> }

TransferLists == UNION { [1..n -> TransferSamples] : n \in 0..MaxTransfers }

TimeTexts == {0, 8, 23} \X {0, 59} \X (0..MaxDayOffset)

\* ------------------------------------------------------------------ search and layover calls
\* One call of RailNetwork.search.
Search(q) ==
  LET r == search(network, q)
  IN /\ calls < MaxSearches
     /\ calls' = calls + 1
     /\ last' = [op |-> "search", query |-> q, status |-> r.status,
                 results |-> r.results]
     /\ network' = network_after_search(network, q)
     /\ UNCHANGED <<ledger, trips, client_trips_index, clients, db, now, procs,
                    context>>

\* One call of Itinerary.price, and of price on each leg taken alone.
Price(it, travel_class) ==
  /\ calls = 0
  /\ calls' = 1
  /\ last' = [op |-> "price", itinerary |-> it, travel_class |-> travel_class,
              returned |-> price(it, travel_class),
              single |-> [i \in DOMAIN it |-> price(<<it[i]>>, travel_class)]]
  /\ UNCHANGED <<ledger, trips, client_trips_index, clients, db, now, procs,
                 network, context>>

\* One call of LayoverValidator.is_layover_acceptable.
Evaluate(arrival_minutes, departure_minutes, policy) ==
  LET r == is_layover_acceptable(arrival_minutes, departure_minutes, policy)
  IN /\ calls = 0
     /\ calls' = 1
     /\ last' = [op |-> "is_layover_acceptable", arrival |-> arrival_minutes,
                 departure |-> departure_minutes, policy |-> policy,
                 accepted |-> r.accepted, reason |-> r.reason]
     /\ UNCHANGED <<ledger, trips, client_trips_index, clients, db, now, procs,
                    network, context>>

\* One call of LayoverValidator.validate_multi_stop_connection.
ValidateMulti(leg_times, policy) ==
  LET r == validate_multi_stop_connection(leg_times, policy)
  IN /\ calls = 0
     /\ calls' = 1
     /\ last' = [op |-> "validate_multi_stop_connection",
                 leg_times |-> leg_times, policy |-> policy,
                 accepted |-> r.accepted, transfer |-> r.transfer,
                 reason |-> r.reason]
     /\ UNCHANGED <<ledger, trips, client_trips_index, clients, db, now, procs,
                    network, context>>

\* The construction of one TrainRoute from its time texts.
NewRoute(departure_time, arrival_time) ==
  LET r == TrainRoute("R001", "Paris", "Berlin", departure_time, arrival_time,
                      "ICE", "Daily", 150, 89)
  IN /\ calls = 0
     /\ calls' = 1
     /\ last' = [op |-> "TrainRoute", route |-> r]
     /\ UNCHANGED <<ledger, trips, client_trips_index, clients, db, now, procs,
                    network, context>>

\* The two duration properties of one Itinerary.
Measure(it) ==
  /\ calls = 0
  /\ calls' = 1
  /\ last' = [op |-> "total_travel_minutes", itinerary |-> it,
              total |-> total_travel_minutes(it),
              transfer |-> displayed_transfer_minutes(it)]
  /\ UNCHANGED <<ledger, trips, client_trips_index, clients, db, now, procs,
                 network, context>>

\* RailNetwork.from_csv(path) on a file with the given rows.
FromCsv(rows) ==
  LET r == from_csv(rows, <<>>)
  IN /\ calls = 0
     /\ calls' = 1
     /\ last' = [op |-> "from_csv", rows |-> rows, raised |-> r.raised,
                 text |-> r.text]
     /\ network' = IF r.raised = "" THEN RailNetwork(r.routes) ELSE network
     /\ UNCHANGED <<ledger, trips, client_trips_index, clients, db, now, procs,
                    context>>

\* Database.load_routes_from_csv(path) on a file with the given rows.
LoadRoutesFromCsv(rows) ==
  LET r == load_routes_from_csv(db, rows)
  IN /\ calls = 0
     /\ calls' = 1
     /\ last' = [op |-> "load_routes_from_csv", rows |-> rows,
                 raised |-> r.raised, text |-> <<>>]
     /\ db' = r.db
     /\ UNCHANGED <<ledger, trips, client_trips_index, clients, now, procs,
                    network, context>>

\* ------------------------------------------------------------------ storage calls
\* What a storage call leaves in `last`.
StoreOutcome(op, args, res) ==
  [op |-> op, args |-> args, ok |-> res.ok, id |-> res.id]

\* Database.get_or_create_client(first_name, last_name, id_number, age)
GetOrCreateClient(t) ==
  LET res == get_or_create_client(db, Client(t), FALSE)
  IN /\ calls < MaxStoreCalls
     /\ calls' = calls + 1
     /\ db' = res.db
     /\ last' = StoreOutcome("get_or_create_client", t, res)
     /\ UNCHANGED <<ledger, trips, client_trips_index, clients, now, procs,
                    network, context>>

\* Database.create_trip(...)
CreateTrip ==
  LET res == create_trip(db, now, FALSE)
  IN /\ calls < MaxStoreCalls
     /\ calls' = calls + 1
     /\ db' = res.db
     /\ last' = StoreOutcome("create_trip", <<>>, res)
     /\ UNCHANGED <<ledger, trips, client_trips_index, clients, now, procs,
                    network, context>>

\* Database.add_trip_leg(trip_id, route_id, leg_order)
AddTripLeg(trip_id, route_id, leg_order) ==
  LET res == add_trip_leg(db, trip_id, route_id, leg_order, FALSE)
  IN /\ calls < MaxStoreCalls
     /\ calls' = calls + 1
     /\ db' = res.db
     /\ last' = StoreOutcome("add_trip_leg", <<trip_id, route_id, leg_order>>, res)
     /\ UNCHANGED <<ledger, trips, client_trips_index, clients, now, procs,
                    network, context>>

\* Database.create_ticket(client_id, trip_id)
CreateTicket(client_id, trip_id) ==
  LET res == create_ticket(db, client_id, trip_id, now, FALSE)
  IN /\ calls < MaxStoreCalls
     /\ calls' = calls + 1
     /\ db' = res.db
     /\ last' = StoreOutcome("create_ticket", <<client_id, trip_id>>, res)
     /\ UNCHANGED <<ledger, trips, client_trips_index, clients, now, procs,
                    network, context>>

\* The deletion of a trip row, as test_cascade_delete issues it.
DeleteTrip(trip_id) ==
  /\ calls < MaxStoreCalls
  /\ calls' = calls + 1
  /\ db' = delete_trip(db, trip_id)
  /\ last' = StoreOutcome("delete_trip", <<trip_id>>, [ok |-> TRUE, id |-> 0])
  /\ UNCHANGED <<ledger, trips, client_trips_index, clients, now, procs,
                 network, context>>

\* ------------------------------------------------------------------ booking state machine
\* Calls of public operations on one machine.
MaxSteps == 6

\* None, for a connection: no legs at all (an Itinerary has at least one).
NoConnection == <<>>

\* BookingContext(): the defaults and __post_init__.  trip_id holds at most
\* one id (<<>>: None); last_error "" stands for None.
BookingContext ==
  [departure_city |-> "", arrival_city |-> "", max_stops |-> 2,
   connections |-> <<>>, selected_connection |-> NoConnection,
   travelers |-> <<>>, validation_errors |-> <<>>,
   trip_id |-> <<>>, ticket_ids |-> <<>>, last_error |-> "",
   current_state |-> "IDLE", previous_state |-> "None"]

\* The outcome of a handler: the context it leaves, what it returns, and
\* the exception that escapes it ("" when none does).
Handled(ctx, returned) == [context |-> ctx, returned |-> returned, raised |-> ""]
Raised(ctx, exception) == [context |-> ctx, returned |-> "", raised |-> exception]

\* Variant: the machine goes back to the state it came from.
transition_to_previous(ctx, new_state) ==
  [ctx EXCEPT !.previous_state = ctx.current_state,
              !.current_state = IF new_state = "IDLE" /\ ctx.previous_state # "None"
                                THEN ctx.previous_state ELSE new_state]

\* BookingStateMachine.transition_to
transition_to(ctx, new_state) ==
  [ctx EXCEPT !.previous_state = ctx.current_state, !.current_state = new_state]

handle_idle(ctx) == Handled(ctx, "awaiting_initiation")

\* _handle_searching: the search is called with layover_policy="strict"; an
\* exception of the call is caught and leads to HANDLING_ERROR.
handle_searching(ctx) ==
  IF ctx.departure_city = "" \/ ctx.arrival_city = ""
  THEN Handled([ctx EXCEPT !.validation_errors =
                             Append(@, "Departure and arrival cities required")],
               "invalid_criteria")
  ELSE LET res == search(network,
                    [departure_city |-> ctx.departure_city,
                     arrival_city |-> ctx.arrival_city,
                     train_type |-> "", day_contains |-> "",
                     max_stops |-> ctx.max_stops, min_transfer_minutes |-> 15,
                     travel_class |-> "second", sort_by |-> "duration",
                     layover_policy |-> "strict"])
       IN IF res.status # "ok"
          THEN Handled(transition_to([ctx EXCEPT !.last_error = res.status],
                                     "HANDLING_ERROR"),
                       "error")
          ELSE IF res.results = <<>>
          THEN Handled([ctx EXCEPT !.connections = <<>>,
                                   !.validation_errors =
                                     Append(@, "No connections found")],
                       "no_results")
          ELSE Handled(transition_to([ctx EXCEPT !.connections = res.results],
                                     "DISPLAYING_RESULTS"),
                       "search_complete")

handle_displaying_results(ctx) == Handled(ctx, "awaiting_selection")

handle_selecting(ctx) ==
  IF ctx.selected_connection = NoConnection THEN Handled(ctx, "no_selection")
  ELSE Handled(transition_to(ctx, "ENTERING_TRAVELERS"), "confirmed")

handle_entering_travelers(ctx) ==
  IF ctx.travelers = <<>> THEN Handled(ctx, "awaiting_travelers")
  ELSE Handled(transition_to(ctx, "VALIDATING_TRAVELERS"), "ready_to_validate")

\* The route ids a ledger keeps for a connection; None has none.
route_ids_of(connection) ==
  IF connection = NoConnection THEN <<>> ELSE legs_key(connection)

\* _has_booking_for_connection, called with a connection that may be None:
\* "True", "False", or "AttributeError" when .legs is read from None.  The
\* in-memory ledger reads it as soon as the client has a trip whose
\* connection, or the connection asked about, is None.
has_booking_mem(client, connection) ==
  LET key == key_of(client)
      trip_ids == IF key \in DOMAIN client_trips_index
                  THEN client_trips_index[key] ELSE {}
  IN IF trip_ids = {} THEN "False"
     ELSE IF connection = NoConnection
             \/ \E id \in trip_ids : trips[id].connection = <<>>
     THEN "AttributeError"
     ELSE IF has_booking_for_connection(client, route_ids_of(connection))
     THEN "True" ELSE "False"

\* The database-backed ledger reads .legs as soon as the client has a trip.
has_booking_db(client, connection) ==
  LET client_id == get_client_by_credentials(db, client.last_name,
                                             client.id_number)
  IN IF client_id = 0 \/ get_trips_for_client(db, client_id) = {} THEN "False"
     ELSE IF connection = NoConnection THEN "AttributeError"
     ELSE IF has_booking_for_connection_v3(db, client, route_ids_of(connection))
     THEN "True" ELSE "False"

\* The ledger the machine was built over.
has_booking(client, connection) ==
  IF ledger = "mem" THEN has_booking_mem(client, connection)
  ELSE has_booking_db(client, connection)

\* _handle_validating, check 1: the format errors of one traveler, in order.
format_errors(t) ==
  (IF t[1] = "" \/ t[2] = "" THEN <<"Names cannot be empty">> ELSE <<>>)
  \o (IF t[3] = "" THEN <<"ID number required">> ELSE <<>>)
  \o (IF t[4] < 0 THEN <<"Invalid age">> ELSE <<>>)

\* _handle_validating, check 2: an error per traveler whose key was seen.
duplicate_errors(travelers) ==
  flatten([i \in DOMAIN travelers |->
             IF \E j \in 1..(i - 1) :
                  /\ lower(travelers[j][2]) = lower(travelers[i][2])
                  /\ travelers[j][3] = travelers[i][3]
             THEN <<"Duplicate traveler">> ELSE <<>>])

\* _handle_validating, check 3, from the i-th traveler on: Client(...) is
\* constructed, which raises ValueError on invalid data, and the ledger is
\* asked; acc = [errors, raised].
RECURSIVE existing_bookings(_, _, _, _)
existing_bookings(travelers, connection, i, acc) ==
  IF i > Len(travelers) THEN acc
  ELSE IF post_init(travelers[i]) # "ok" THEN [acc EXCEPT !.raised = "ValueError"]
  ELSE LET found == has_booking(Client(travelers[i]), connection)
       IN IF found = "AttributeError" THEN [acc EXCEPT !.raised = found]
          ELSE existing_bookings(travelers, connection, i + 1,
                 IF found = "True"
                 THEN [acc EXCEPT !.errors = Append(@, "already has reservation")]
                 ELSE acc)

handle_validating(ctx) ==
  LET checked ==
        flatten([i \in DOMAIN ctx.travelers |-> format_errors(ctx.travelers[i])])
        \o duplicate_errors(ctx.travelers)
      acc == existing_bookings(ctx.travelers, ctx.selected_connection, 1,
                               [errors |-> checked, raised |-> ""])
      seen == [ctx EXCEPT !.validation_errors = acc.errors]
  IN IF acc.raised # "" THEN Raised(seen, acc.raised)
     ELSE IF acc.errors # <<>>
     THEN Handled(transition_to(seen, "ENTERING_TRAVELERS"), "validation_failed")
     ELSE Handled(transition_to(seen, "CREATING_RESERVATION"), "validation_success")

\* book_trip as _handle_creating calls it, on the in-memory ledger: what the
\* call leaves in the ledger and the trip it returns, or the exception.
book_trip_mem(connection, travelers, n, rnd) ==
  LET p == parse(travelers)
      cl == p.clients
      hit == { i \in DOMAIN cl : has_booking_mem(cl[i], connection) # "False" }
      first == IF hit = {} THEN "False"
               ELSE has_booking_mem(cl[CHOOSE i \in hit : \A j \in hit : i <= j],
                                    connection)
      trip == build_trip(route_ids_of(connection), cl, n,
                         [i \in DOMAIN cl |-> rnd[i]], now)
      kept == [trips |-> trips, client_trips_index |-> client_trips_index,
               clients |-> register(clients, cl, 1), returned |-> <<>>,
               raised |-> "ValueError", status |-> p.status]
  IN IF p.status # "ok" THEN kept
     ELSE IF first = "True" THEN [kept EXCEPT !.status = "AlreadyBooked"]
     ELSE IF first = "AttributeError"
     THEN [kept EXCEPT !.raised = first, !.status = first]
     ELSE [trips |-> store_trip(trips, trip),
           client_trips_index |-> index_trip(client_trips_index, cl, trip.trip_id),
           clients |-> register(clients, cl, 1),
           returned |-> <<trip>>, raised |-> "", status |-> "ok"]

\* book_trip as _handle_creating calls it, on the database-backed ledger.
\* With connection None the call raises at connection.origin, before the
\* first write.
book_trip_db(connection, travelers, fault_at) ==
  LET p == parse(travelers)
      cl == p.clients
      hit == { i \in DOMAIN cl : has_booking_db(cl[i], connection) # "False" }
      first == IF hit = {} THEN "False"
               ELSE has_booking_db(cl[CHOOSE i \in hit : \A j \in hit : i <= j],
                                   connection)
      conn == route_ids_of(connection)
      r0 == [db |-> db, ok |-> TRUE, trip_id |-> 0, client_id |-> 0,
             ticket_ids |-> <<>>]
      r == run_writes(r0, writes(conn, cl), 1, conn, cl, now, fault_at)
      kept == [db |-> db, returned |-> <<>>, raised |-> "ValueError",
               status |-> p.status]
  IN IF p.status # "ok" THEN kept
     ELSE IF first = "True" THEN [kept EXCEPT !.status = "AlreadyBooked"]
     ELSE IF first = "AttributeError"
     THEN [kept EXCEPT !.raised = first, !.status = first]
     ELSE IF connection = NoConnection
     THEN [kept EXCEPT !.raised = "AttributeError", !.status = "AttributeError"]
     ELSE IF ~r.ok
     THEN [kept EXCEPT !.db = r.db, !.raised = "sqlite3.Error",
                       !.status = "PersistenceFailure"]
     ELSE [db |-> r.db, returned |-> <<build_trip_v3(conn, cl, r, now)>>,
           raised |-> "", status |-> "ok"]

\* _handle_creating after book_trip: the ids are stored in the context, the
\* post-conditions asserted (trip.trip_id > 0 raises TypeError for the
\* string ids of the in-memory ledger), and every exception is caught.
handle_creating(ctx, booked) ==
  IF booked.raised # ""
  THEN Handled(transition_to([ctx EXCEPT !.last_error = booked.raised],
                             "HANDLING_ERROR"),
               "error")
  ELSE LET trip == booked.returned[1]
           stored == [ctx EXCEPT !.trip_id = <<trip.trip_id>>,
                                 !.ticket_ids =
                                   [i \in DOMAIN trip.reservations |->
                                      trip.reservations[i].ticket.ticket_id]]
       IN IF ledger = "mem"
          THEN Handled(transition_to([stored EXCEPT !.last_error = "TypeError"],
                                     "HANDLING_ERROR"),
                       "error")
          ELSE IF trip.trip_id > 0
                  /\ Len(trip.reservations) = Len(ctx.travelers)
          THEN Handled(transition_to(stored, "DISPLAYING_CONFIRMATION"), "success")
          ELSE Handled(transition_to([stored EXCEPT !.last_error = "AssertionError"],
                                     "HANDLING_ERROR"),
                       "error")

\* _handle_confirmation: connection.price("second") is read before the
\* transition.
handle_confirmation(ctx) ==
  IF ctx.selected_connection = NoConnection THEN Raised(ctx, "AttributeError")
  ELSE Handled(transition_to(ctx, "IDLE"), "complete")

handle_error(ctx) == Handled(ctx, "awaiting_recovery_decision")

\* BookingStateMachine.is_complete
is_complete(ctx) == ctx.current_state = "IDLE" /\ ctx.trip_id # <<>>

\* What a public operation leaves in `last`.
MachineOutcome(op, before, h) ==
  [op |-> op, before |-> before, returned |-> h.returned, raised |-> h.raised]

LedgerUnchanged == UNCHANGED <<trips, client_trips_index, clients, db>>

\* start_booking(departure, arrival, max_stops)
StartBooking(departure, arrival, max_stops) ==
  LET fresh == [BookingContext EXCEPT !.departure_city = departure,
                                      !.arrival_city = arrival,
                                      !.max_stops = max_stops]
      h == handle_searching(
             [fresh EXCEPT !.previous_state = context.current_state,
                           !.current_state = "SEARCHING_CONNECTION"])
  IN /\ calls < MaxSteps
     /\ context' = h.context
     /\ last' = MachineOutcome("start_booking", context.current_state, h)
     /\ calls' = calls + 1
     /\ LedgerUnchanged
     /\ UNCHANGED <<ledger, now, procs, network>>

\* select_connection(connection_index)
SelectConnection(connection_index) ==
  LET h == IF 0 <= connection_index /\ connection_index < Len(context.connections)
           THEN handle_selecting(
                  transition_to(
                    [context EXCEPT !.selected_connection =
                                      context.connections[connection_index + 1]],
                    "SELECTING_CONNECTION"))
           ELSE Handled(context, "invalid_index")
  IN /\ calls < MaxSteps
     /\ context' = h.context
     /\ last' = MachineOutcome("select_connection", context.current_state, h)
     /\ calls' = calls + 1
     /\ LedgerUnchanged
     /\ UNCHANGED <<ledger, now, procs, network>>

\* add_travelers(travelers)
AddTravelers(travelers) ==
  LET h == handle_entering_travelers([context EXCEPT !.travelers = travelers])
  IN /\ calls < MaxSteps
     /\ context' = h.context
     /\ last' = MachineOutcome("add_travelers", context.current_state, h)
     /\ calls' = calls + 1
     /\ LedgerUnchanged
     /\ UNCHANGED <<ledger, now, procs, network>>

\* execute_current_state(): the handler of the current state.  Only
\* _handle_creating changes the ledger, through book_trip.
ExecuteCurrentState ==
  /\ calls < MaxSteps
  /\ calls' = calls + 1
  /\ UNCHANGED <<ledger, now, procs, network>>
  /\ IF context.current_state = "CREATING_RESERVATION"
     THEN IF ledger = "mem"
          THEN \E n \in 0..(TripIdSpace - 1),
                  rnd \in [1..MaxTravelers -> 0..(RandRange - 1)] :
                 LET booked == book_trip_mem(context.selected_connection,
                                             context.travelers, n, rnd)
                     h == handle_creating(context, booked)
                 IN /\ trips' = booked.trips
                    /\ client_trips_index' = booked.client_trips_index
                    /\ clients' = booked.clients
                    /\ context' = h.context
                    /\ last' = MachineOutcome("execute_current_state",
                                              context.current_state, h)
                    /\ UNCHANGED db
          ELSE \E fault_at \in 0..(1 + 3 + 2 * MaxTravelers) :
                 LET booked == book_trip_db(context.selected_connection,
                                            context.travelers, fault_at)
                     h == handle_creating(context, booked)
                 IN /\ db' = booked.db
                    /\ context' = h.context
                    /\ last' = MachineOutcome("execute_current_state",
                                              context.current_state, h)
                    /\ UNCHANGED <<trips, client_trips_index, clients>>
     ELSE LET s == context.current_state
              h == CASE s = "IDLE" -> handle_idle(context)
                     [] s = "SEARCHING_CONNECTION" -> handle_searching(context)
                     [] s = "DISPLAYING_RESULTS" -> handle_displaying_results(context)
                     [] s = "SELECTING_CONNECTION" -> handle_selecting(context)
                     [] s = "ENTERING_TRAVELERS" -> handle_entering_travelers(context)
                     [] s = "VALIDATING_TRAVELERS" -> handle_validating(context)
                     [] s = "DISPLAYING_CONFIRMATION" -> handle_confirmation(context)
                     [] s = "HANDLING_ERROR" -> handle_error(context)
          IN /\ context' = h.context
             /\ last' = MachineOutcome("execute_current_state", s, h)
             /\ LedgerUnchanged

\* cancel()
Cancel ==
  LET h == handle_idle(transition_to(context, "IDLE"))
  IN /\ calls < MaxSteps
     /\ context' = h.context
     /\ last' = MachineOutcome("cancel", context.current_state, h)
     /\ calls' = calls + 1
     /\ LedgerUnchanged
     /\ UNCHANGED <<ledger, now, procs, network>>

\* ------------------------------------------------------------------ concurrent callers
\* A caller of book_trip: its position in the call and the call's locals.
Idle ==
  [pc |-> "idle", connection |-> <<>>, travelers |-> <<>>, cl |-> <<>>,
   status |-> "none", k |-> 0, trip |-> <<>>,
   r |-> [ok |-> TRUE, trip_id |-> 0, client_id |-> 0, ticket_ids |-> <<>>]]

\* book_trip up to the end of the parse loop (the in-memory ledger registers
\* the parsed clients there).
Call(p, conn, travelers) ==
  LET q == parse(travelers)
  IN /\ procs[p].pc = "idle"
     /\ procs' = [procs EXCEPT ![p] =
          [@ EXCEPT !.connection = conn, !.travelers = travelers,
                    !.cl = q.clients,
                    !.status = IF q.status = "ok" THEN "none" ELSE q.status,
                    !.pc = IF q.status = "ok" THEN "check" ELSE "done"]]
     /\ clients' = IF ledger = "mem" THEN register(clients, q.clients, 1)
                   ELSE clients
     /\ UNCHANGED <<ledger, trips, client_trips_index, db, now, calls, last, network, context>>

\* book_trip, the loop over _has_booking_for_connection; the in-memory
\* ledger then builds the trip and its tickets.
Check(p) ==
  LET me == procs[p]
      booked == \E i \in DOMAIN me.cl :
                  IF ledger = "mem"
                  THEN has_booking_for_connection(me.cl[i], me.connection)
                  ELSE has_booking_for_connection_v3(db, me.cl[i], me.connection)
  IN /\ me.pc = "check"
     /\ IF booked
        THEN procs' = [procs EXCEPT ![p] =
               [@ EXCEPT !.status = "AlreadyBooked", !.pc = "done"]]
        ELSE IF ledger = "db"
        THEN procs' = [procs EXCEPT ![p] = [@ EXCEPT !.pc = "write", !.k = 1]]
        ELSE \E n \in 0..(TripIdSpace - 1),
                rnd \in [1..Len(me.cl) -> 0..(RandRange - 1)] :
               procs' = [procs EXCEPT ![p] =
                 [@ EXCEPT !.pc = "store",
                           !.trip = <<build_trip(me.connection, me.cl, n, rnd, now)>>]]
     /\ UNCHANGED <<ledger, trips, client_trips_index, clients, db, now, calls, last, network, context>>

\* booking_system.book_trip: self.trips[trip_id] = trip
Store(p) ==
  /\ procs[p].pc = "store"
  /\ trips' = store_trip(trips, procs[p].trip[1])
  /\ procs' = [procs EXCEPT ![p] = [@ EXCEPT !.pc = "index"]]
  /\ UNCHANGED <<ledger, client_trips_index, clients, db, now, calls, last, network, context>>

\* booking_system.book_trip: the index update, then return trip.
Index(p) ==
  /\ procs[p].pc = "index"
  /\ client_trips_index' =
       index_trip(client_trips_index, procs[p].cl, procs[p].trip[1].trip_id)
  /\ procs' = [procs EXCEPT ![p] = [@ EXCEPT !.status = "ok", !.pc = "done"]]
  /\ UNCHANGED <<ledger, trips, clients, db, now, calls, last, network, context>>

\* booking_system_v3.book_trip: the next storage write, one transaction.
Write(p) ==
  LET me == procs[p]
      ws == writes(me.connection, me.cl)
      r == exec([db |-> db, ok |-> me.r.ok, trip_id |-> me.r.trip_id,
                 client_id |-> me.r.client_id, ticket_ids |-> me.r.ticket_ids],
                ws[me.k], me.connection, me.cl, now, FALSE)
      locals == [ok |-> r.ok, trip_id |-> r.trip_id, client_id |-> r.client_id,
                 ticket_ids |-> r.ticket_ids]
  IN /\ me.pc = "write"
     /\ db' = r.db
     /\ procs' = [procs EXCEPT ![p] =
          [@ EXCEPT !.r = locals,
                    !.k = me.k + 1,
                    !.status = IF ~r.ok THEN "PersistenceFailure"
                               ELSE IF me.k = Len(ws) THEN "ok" ELSE @,
                    !.pc = IF ~r.ok \/ me.k = Len(ws) THEN "done" ELSE "write",
                    !.trip = IF r.ok /\ me.k = Len(ws)
                             THEN <<build_trip_v3(me.connection, me.cl, r, now)>>
                             ELSE @]]
     /\ UNCHANGED <<ledger, trips, client_trips_index, clients, now, calls, last, network, context>>

\* ------------------------------------------------------------------ two ledgers side by side
\* The same book_trip call made on an in-memory ledger and on a
\* database-backed ledger that hold the same earlier calls; the storage
\* engine meets no fault.
BookBoth(connection, travelers) ==
  /\ calls < MaxCalls
  /\ calls' = calls + 1
  /\ \E n \in 0..(TripIdSpace - 1), rnd \in [1..MaxTravelers -> 0..(RandRange - 1)] :
       LET m == book_trip_mem(connection, travelers, n, rnd)
           d == book_trip_db(connection, travelers, 0)
       IN /\ trips' = m.trips
          /\ client_trips_index' = m.client_trips_index
          /\ clients' = m.clients
          /\ db' = d.db
          /\ last' = [op |-> "book_trip on both", connection |-> connection,
                      travelers |-> travelers, mem |-> m.status, db |-> d.status]
  /\ UNCHANGED <<ledger, now, procs, network, context>>

\* ------------------------------------------------------------------ a reader beside the callers
\* get_trip_by_id(trip_id).  The in-memory ledger answers from self.trips in
\* one step.  The database-backed ledger runs _reconstruct_trip, whose three
\* queries are separate transactions: the trip row first.
ReadTrip(trip_id) ==
  LET rows == { t \in db.trips : t.trip_id = trip_id }
      reading == [op |-> "get_trip_by_id", pc |-> "done", trip_id |-> trip_id,
                  booking_timestamp |-> 0, legs |-> <<>>, returned |-> <<>>,
                  raised |-> ""]
  IN /\ calls = 0
     /\ calls' = 1
     /\ last' = IF ledger = "mem"
                THEN [reading EXCEPT !.returned =
                        IF trip_id \in DOMAIN trips THEN <<trips[trip_id]>>
                        ELSE <<>>]
                ELSE IF rows = {} THEN reading
                ELSE [reading EXCEPT !.pc = "legs",
                        !.booking_timestamp =
                          (CHOOSE t \in rows : TRUE).booking_timestamp]
     /\ UNCHANGED <<ledger, trips, client_trips_index, clients, db, now, procs,
                    network, context>>

\* _reconstruct_trip: self.db.get_trip_legs(trip_id); None when there are none.
ReadLegs ==
  LET legs == get_trip_legs(db, last.trip_id)
  IN /\ last.op = "get_trip_by_id"
     /\ last.pc = "legs"
     /\ last' = IF legs = <<>> THEN [last EXCEPT !.pc = "done"]
                ELSE [last EXCEPT !.pc = "tickets", !.legs = legs]
     /\ UNCHANGED <<ledger, trips, client_trips_index, clients, db, now, calls,
                    procs, network, context>>

\* _reconstruct_trip: self.db.get_tickets_for_trip(trip_id), then Trip(...),
\* whose __post_init__ raises ValueError when there is no reservation.
ReadTickets ==
  LET tks == get_tickets_for_trip(db, last.trip_id)
      client(i) == Client(<<tks[i].first_name, tks[i].last_name,
                            tks[i].id_number, tks[i].age>>)
  IN /\ last.op = "get_trip_by_id"
     /\ last.pc = "tickets"
     /\ last' = IF tks = <<>>
                THEN [last EXCEPT !.pc = "done", !.raised = "ValueError"]
                ELSE [last EXCEPT !.pc = "done", !.returned =
                        <<Trip(last.trip_id, last.legs,
                               [i \in 1..Len(tks) |->
                                  Reservation(client(i),
                                    Ticket(tks[i].ticket_id, client(i),
                                           last.legs, tks[i].issue_timestamp))],
                               last.booking_timestamp)>>]
     /\ UNCHANGED <<ledger, trips, client_trips_index, clients, db, now, calls,
                    procs, network, context>>

\* ------------------------------------------------------------------ clock
\* Time passes between calls.
Tick ==
  /\ now < MaxTime
  /\ now' = now + 1
  /\ UNCHANGED <<ledger, trips, client_trips_index, clients, db, calls, last, procs, network, context>>

\* ------------------------------------------------------------------ specification
EmptyDb ==
  [routes |-> DbRoutes, clients |-> {}, trips |-> {}, trip_legs |-> {},
   tickets |-> {}, seq |-> [clients |-> 0, trips |-> 0, tickets |-> 0]]

Init ==
  /\ ledger \in {"mem", "db"}
  /\ trips = <<>>
  /\ client_trips_index = <<>>
  /\ clients = {}
  /\ db = EmptyDb
  /\ now = 0
  /\ calls = 0
  /\ last = NoCall
  /\ procs = [p \in 1..NumProcs |-> Idle]
  /\ network = RailNetwork(TestRoutes)
  /\ context = BookingContext

Next ==
  \/ \E connection \in Connections, travelers \in TravelerLists :
       BookMem(connection, travelers)
  \/ \E conn \in Connections, travelers \in TravelerLists :
       BookDb(conn, travelers)

Spec == Init /\ [][Next]_vars

\* One search over each schedule.
InitSearch ==
  /\ ledger = "mem"
  /\ trips = <<>>
  /\ client_trips_index = <<>>
  /\ clients = {}
  /\ db = EmptyDb
  /\ now = 0
  /\ calls = 0
  /\ last = NoCall
  /\ procs = [p \in 1..NumProcs |-> Idle]
  /\ network \in { RailNetwork(routes) : routes \in Schedules }
  /\ context = BookingContext

NextSearch == \E q \in Queries : calls = 0 /\ Search(q)

SpecSearch == InitSearch /\ [][NextSearch]_vars

\* One call of a layover or time function.
InitPure ==
  /\ ledger = "mem"
  /\ trips = <<>>
  /\ client_trips_index = <<>>
  /\ clients = {}
  /\ db = EmptyDb
  /\ now = 0
  /\ calls = 0
  /\ last = NoCall
  /\ procs = [p \in 1..NumProcs |-> Idle]
  /\ network = RailNetwork(TestRoutes)
  /\ context = BookingContext

NextPure ==
  \/ \E t \in Transfers, policy \in Policies : Evaluate(t[1], t[2], policy)
  \/ \E leg_times \in TransferLists, policy \in Policies :
       ValidateMulti(leg_times, policy)
  \/ \E departure_time \in TimeTexts, arrival_time \in TimeTexts :
       NewRoute(departure_time, arrival_time)

SpecPure == InitPure /\ [][NextPure]_vars

\* Searches one after another on one network.
InitSearches ==
  /\ ledger = "mem"
  /\ trips = <<>>
  /\ client_trips_index = <<>>
  /\ clients = {}
  /\ db = EmptyDb
  /\ now = 0
  /\ calls = 0
  /\ last = NoCall
  /\ procs = [p \in 1..NumProcs |-> Idle]
  /\ network \in {RailNetwork(TestRoutes), RailNetwork(MixedRoutes)}
  /\ context = BookingContext

RepeatedQueries ==
  { q \in Queries : /\ q.layover_policy = ""
                    /\ q.min_transfer_minutes = 15
                    /\ q.day_contains = "" }

NextSearches == \E q \in RepeatedQueries : Search(q)

SpecSearches == InitSearches /\ [][NextSearches]_vars

\* One fare computation.
TravelClasses ==
  {"first", "First", "FIRST class", "first class", " first", "fir", "second",
   "business", ""}

Itineraries == UNION { [1..n -> Routes] : n \in 1..MaxLegs }

NextPrice == \E it \in Itineraries, travel_class \in TravelClasses : Price(it, travel_class)

SpecPrice == InitPure /\ [][NextPrice]_vars

\* One itinerary is measured.
NextMeasure == \E it \in Itineraries : Measure(it)

SpecMeasure == InitPure /\ [][NextMeasure]_vars

\* Schedule files are loaded into a network and into a database.
TimeCells ==
  { TimeCell(<<8, 30>>, 0), TimeCell(<<23>>, 1), TimeCell(<<>>, 0),
    TimeCell(<<>>, 1) }

CsvRows ==
  [route_id : RouteIds, departure_city : {"Paris"}, arrival_city : {"Berlin"},
   departure_time : TimeCells, arrival_time : TimeCells]

CsvFiles == UNION { [1..n -> CsvRows] : n \in 0..MaxRows }

InitLoad ==
  /\ ledger = "db"
  /\ trips = <<>>
  /\ client_trips_index = <<>>
  /\ clients = {}
  /\ db = [EmptyDb EXCEPT !.routes = {}]
  /\ now = 0
  /\ calls = 0
  /\ last = NoCall
  /\ procs = [p \in 1..NumProcs |-> Idle]
  /\ network = RailNetwork(<<>>)
  /\ context = BookingContext

NextLoad ==
  \/ \E rows \in CsvFiles : FromCsv(rows)
  \/ \E rows \in CsvFiles : LoadRoutesFromCsv(rows)

SpecLoad == InitLoad /\ [][NextLoad]_vars

\* Direct calls of the storage layer.
StoreIds == 1..2

NextStore ==
  \/ \E t \in Travelers : GetOrCreateClient(t)
  \/ CreateTrip
  \/ \E trip_id \in StoreIds, route_id \in RouteIds, leg_order \in 0..1 :
       AddTripLeg(trip_id, route_id, leg_order)
  \/ \E client_id \in StoreIds, trip_id \in StoreIds : CreateTicket(client_id, trip_id)
  \/ \E trip_id \in StoreIds : DeleteTrip(trip_id)

InitStore == Init /\ ledger = "db"

SpecStore == InitStore /\ [][NextStore]_vars

\* Valid client data: two first names with their ages, every last name, two
\* id numbers.
ClientTuples ==
  { <<f[1], l, i, f[2]>> : f \in {<<"Al", 30>>, <<"Bo", 31>>},
                           l \in LastNames, i \in {"P1", "P2"} }

\* Three clients are built, compared with each other and added to a set.
CompareClients(t, u, v) ==
  /\ calls = 0
  /\ calls' = 1
  /\ LET a == Client(t)
         b == Client(u)
         c == Client(v)
     IN last' = [op |-> "Client.__eq__", a |-> a, b |-> b, c |-> c,
                 aa |-> client_eq(a, a), ab |-> client_eq(a, b),
                 ba |-> client_eq(b, a), bc |-> client_eq(b, c),
                 ac |-> client_eq(a, c),
                 hash_a |-> client_hash(a), hash_b |-> client_hash(b),
                 set |-> set_add(set_add(set_add({}, a), b), c)]
  /\ UNCHANGED <<ledger, trips, client_trips_index, clients, db, now, procs,
                 network, context>>

NextClient ==
  \E t \in ClientTuples, u \in ClientTuples, v \in ClientTuples :
    CompareClients(t, u, v)

SpecClient == Init /\ [][NextClient]_vars

\* Itineraries of up to three legs over the loaded routes.
LegLists == UNION { [1..n -> RouteIds] : n \in 0..MaxLegs }

\* Two itineraries are compared by the in-memory ledger; the first is also
\* stored as the legs of a trip in a database holding every route, and its
\* stored legs are compared with the second.
CompareConnections(a, b) ==
  /\ calls = 0
  /\ calls' = 1
  /\ LET r0 == [db |-> [EmptyDb EXCEPT !.routes = RouteIds], ok |-> TRUE,
                trip_id |-> 0, client_id |-> 0, ticket_ids |-> <<>>]
         r == run_writes(r0, writes(a, <<>>), 1, a, <<>>, now, 0)
     IN last' = [op |-> "_connections_equal", a |-> a, b |-> b,
                 ab |-> connections_equal(a, b),
                 ba |-> connections_equal(b, a),
                 aa |-> connections_equal(a, a),
                 stored |-> get_trip_legs(r.db, r.trip_id),
                 ab_v3 |-> route_ids_equal(r.db, r.trip_id, b)]
  /\ UNCHANGED <<ledger, trips, client_trips_index, clients, db, now, procs,
                 network, context>>

NextConnections == \E a \in LegLists, b \in LegLists : CompareConnections(a, b)

SpecConnections == Init /\ [][NextConnections]_vars

\* The public operations of one state machine over an empty ledger, in any
\* order.

MachineLists ==
  { <<>>,
    <<<<"Al", "lee", "P1", 30>>>>,
    <<<<"Al", "lee", "P1", 30>>, <<"Bo", "LEE", "P1", 31>>>>,
    <<<<"Al", "lee", "P1", 30>>, <<"Al", "lee", "P2", 30>>>>,
    <<<<"", "lee", "P1", 30>>>>,
    <<<<"Al", "lee", "", 30>>>>,
    <<<<"Al", "lee", "P1", -1>>>> }

Cities == {"", "Paris", "Berlin"}

NextMachine ==
  \/ \E departure \in Cities, arrival \in Cities :
       StartBooking(departure, arrival, 2)
  \/ \E connection_index \in {0, 1} : SelectConnection(connection_index)
  \/ \E travelers \in MachineLists : AddTravelers(travelers)
  \/ ExecuteCurrentState
  \/ Cancel

SpecMachine == Init /\ [][NextMachine]_vars

\* The booking flow of one client session: start_booking between two cities
\* joined by a route, select_connection(0), add_travelers with valid,
\* distinct travelers, then execute_current_state three times.
FlowCities ==
  { <<"Paris", "Berlin">>, <<"Paris", "Frankfurt">>, <<"Frankfurt", "Berlin">>,
    <<"Paris", "Munich">>, <<"Munich", "Berlin">> }

FlowLists ==
  { <<<<"Al", "lee", "P1", 30>>>>,
    <<<<"Al", "öz", "P1", 30>>>>,
    <<<<"Al", "lee", "P1", 30>>, <<"Al", "lee", "P2", 30>>>> }

NextFlow ==
  \/ \E c \in FlowCities : calls = 0 /\ StartBooking(c[1], c[2], 2)
  \/ calls = 1 /\ SelectConnection(0)
  \/ \E travelers \in FlowLists : calls = 2 /\ AddTravelers(travelers)
  \/ calls >= 3 /\ ExecuteCurrentState

SpecFlow == Init /\ [][NextFlow]_vars

\* Concurrent callers of book_trip and one reader of a trip.
ReadLists ==
  { <<<<"Al", "lee", "P1", 30>>>>,
    <<<<"Al", "lee", "P2", 30>>, <<"Bo", "LEE", "P1", 31>>>> }

TripIds ==
  IF ledger = "mem" THEN { generate_trip_id(n) : n \in 0..(TripIdSpace - 1) }
  ELSE 1..NumProcs

NextRead ==
  \/ \E p \in 1..NumProcs, conn \in { <<"R1">>, <<"R1", "R2">> },
        travelers \in ReadLists : Call(p, conn, travelers)
  \/ \E p \in 1..NumProcs : Check(p)
  \/ \E p \in 1..NumProcs : Store(p)
  \/ \E p \in 1..NumProcs : Index(p)
  \/ \E p \in 1..NumProcs : Write(p)
  \/ \E trip_id \in TripIds : ReadTrip(trip_id)
  \/ ReadLegs
  \/ ReadTickets

SpecRead == Init /\ [][NextRead]_vars

\* Both ledgers receive the same calls, on itineraries over routes both have
\* loaded.
BothConnections ==
  { [i \in DOMAIN c |-> [route_id |-> c[i]]] : c \in { <<"R1">>, <<"R1", "R2">> } }

BothTravelers ==
  { <<"Al", "lee", "P1", 30>>, <<"Bo", "LEE", "P1", 31>>,
    <<"Al", "öz", "P1", 30>>, <<"Al", "ÖZ", "P1", 30>>,
    <<"Al", "lee", "P1", -1>> }

BothLists == UNION { [1..n -> BothTravelers] : n \in 0..MaxTravelers }

NextBoth ==
  \E connection \in BothConnections, travelers \in BothLists :
    BookBoth(connection, travelers)

SpecBoth == Init /\ [][NextBoth]_vars

\* Bookings of a few travelers while the clock advances.
ClockLists ==
  { <<<<"Al", "lee", "P1", 30>>>>, <<<<"Bo", "LEE", "P1", 31>>>>,
    <<<<"Al", "lee", "P2", 30>>>>,
    <<<<"Al", "lee", "P1", 30>>, <<"Al", "lee", "P2", 30>>>> }

NextClock ==
  \/ Tick
  \/ \E connection \in Connections, travelers \in ClockLists :
       BookMem(connection, travelers)
  \/ \E conn \in Connections, travelers \in ClockLists : BookDb(conn, travelers)

SpecClock == Init /\ [][NextClock]_vars

\* One booking of a single traveler on one connection, then one booking of
\* a longer list on any connection.
LongLists == UNION { [1..n -> Travelers] : n \in 0..(MaxTravelers + 1) }

FirstCall == { <<"R1">> } \X [1..1 -> Travelers]
SecondCall == Connections \X LongLists

NextChecks ==
  \/ \E c \in (IF calls = 0 THEN FirstCall ELSE SecondCall) : BookMem(c[1], c[2])
  \/ \E c \in (IF calls = 0 THEN FirstCall ELSE SecondCall) : BookDb(c[1], c[2])

SpecChecks == Init /\ [][NextChecks]_vars

\* Concurrent callers, each making one book_trip call.
RaceLists ==
  { <<<<"Al", "lee", "P1", 30>>>>, <<<<"Bo", "LEE", "P1", 31>>>>,
    <<<<"Al", "lee", "P2", 30>>>>,
    <<<<"Al", "lee", "P2", 30>>, <<"Al", "lee", "P1", 30>>>> }

NextConc ==
  \/ \E p \in 1..NumProcs, conn \in { <<"R1">>, <<"R1", "R2">> },
        travelers \in RaceLists : Call(p, conn, travelers)
  \/ \E p \in 1..NumProcs : Check(p)
  \/ \E p \in 1..NumProcs : Store(p)
  \/ \E p \in 1..NumProcs : Index(p)
  \/ \E p \in 1..NumProcs : Write(p)

SpecConc == Init /\ [][NextConc]_vars


\* ------------------------------------------------------------------ ledger contents
\* The reservations visible in the deployed ledger: who (identity), on which
\* trip, for which route-id sequence, under which ticket.
HeldMem ==
  UNION { { [who |-> key_of(trips[id].reservations[i].client), trip |-> id,
             conn |-> trips[id].connection,
             ticket |-> trips[id].reservations[i].ticket.ticket_id] :
              i \in DOMAIN trips[id].reservations } : id \in DOMAIN trips }

HeldDb ==
  { [who |-> key_of(CHOOSE c \in db.clients : c.client_id = tk.client_id),
     trip |-> tk.trip_id, conn |-> get_trip_legs(db, tk.trip_id),
     ticket |-> tk.ticket_id] : tk \in db.tickets }

Held == IF ledger = "mem" THEN HeldMem ELSE HeldDb

\* C1: the ledger never holds two reservations of one client identity (last
\* name compared case-insensitively, id number exactly) on trips with the same
\* ordered route-id sequence.
C1_OneReservationPerClientAndConnection ==
  \A x \in Held, y \in Held :
    (x.who = y.who /\ x.conn = y.conn) => x.trip = y.trip

\* A book_trip call has just returned.
Booked == calls' = calls + 1

\* C3: when a storage write of book_trip raises, no trip, trip leg or ticket
\* written by that call stays visible: the writes of one call are
\* all-or-nothing.
C3_WritesAllOrNothing ==
  [][(Booked /\ last'.status = "PersistenceFailure")
       => /\ db'.trips = db.trips
          /\ db'.trip_legs = db.trip_legs
          /\ db'.tickets = db.tickets]_vars

BusinessErrors ==
  {"EmptyBooking", "InvalidTraveler", "DuplicateTravelerInBooking", "AlreadyBooked"}

\* C4: a book_trip call that fails with a business-rule error persists
\* nothing: trips, tickets, the client index and the registered clients are
\* as before the call.
C4_RejectedBookingPersistsNothing ==
  [][(Booked /\ last'.status \in BusinessErrors)
       => UNCHANGED <<trips, client_trips_index, clients, db>>]_vars

\* The identity of a traveler entry: lower-cased last name, exact id number.
Identity(t) == <<lower(t[2]), t[3]>>

\* Every entry is valid and no two entries share an identity.
WellFormed(travelers) ==
  /\ travelers # <<>>
  /\ \A i \in DOMAIN travelers : post_init(travelers[i]) = "ok"
  /\ \A i, j \in DOMAIN travelers :
       i # j => Identity(travelers[i]) # Identity(travelers[j])

\* Some traveler of the list holds a reservation on the route-id sequence.
HoldsAlready(travelers, conn) ==
  \E i \in DOMAIN travelers, h \in Held :
    h.who = Identity(travelers[i]) /\ h.conn = conn

\* C5: a call with valid, distinct travelers fails with AlreadyBooked exactly
\* when one of them already holds a reservation on a trip with the same
\* ordered route-id sequence, whatever first name, age or letter case is
\* supplied.
C5_AlreadyBookedIffHeld ==
  [][(Booked /\ WellFormed(last'.travelers))
       => (last'.status = "AlreadyBooked"
             <=> HoldsAlready(last'.travelers, last'.connection))]_vars

\* C6: a successful book_trip returns a trip with a non-empty (in-memory) or
\* positive (database) trip id and exactly one reservation per traveler, in
\* traveler order, whose ticket carries the reservation's client and the
\* booked itinerary.
C6_ReturnedTripMatchesTravelers ==
  (last.op = "book_trip" /\ last.status = "ok") =>
    /\ Len(last.returned) = 1
    /\ LET trip == last.returned[1]
       IN /\ IF ledger = "mem" THEN trip.trip_id # "" ELSE trip.trip_id > 0
          /\ trip.connection = last.connection
          /\ Len(trip.reservations) = Len(last.travelers)
          /\ \A i \in DOMAIN trip.reservations :
               /\ trip.reservations[i].client = Client(last.travelers[i])
               /\ trip.reservations[i].ticket.client = trip.reservations[i].client
               /\ trip.reservations[i].ticket.connection = last.connection

\* C6 witness: a booking of two travelers has succeeded.
C6_Witness ==
  last.op = "book_trip" /\ last.status = "ok" /\ Len(last.travelers) = 2

\* C7: all ticket ids in the ledger are pairwise distinct, within one trip
\* and across trips.
C7_TicketIdsDistinct ==
  \A x \in Held, y \in Held :
    x.ticket = y.ticket => (x.trip = y.trip /\ x.who = y.who)

\* The ids of the trips stored in the deployed ledger.
TripIdsInLedger ==
  IF ledger = "mem" THEN DOMAIN trips ELSE { t.trip_id : t \in db.trips }

\* C8: a successful book_trip allocates a trip id no stored trip has, so no
\* stored trip is replaced and the number of trips grows by exactly one.
C8_FreshTripId ==
  [][(Booked /\ last'.status = "ok")
       => /\ last'.returned[1].trip_id \notin TripIdsInLedger
          /\ Cardinality(TripIdsInLedger') = Cardinality(TripIdsInLedger) + 1]_vars

IdNumbers == {"P1", "P2"}

\* tripsForClient on the deployed ledger.
TripsForClient(last_name, id_number) ==
  IF ledger = "mem" THEN get_trips_by_client(last_name, id_number)
  ELSE get_trips_by_client_v3(db, last_name, id_number)

TripIdsOf(list) == { list[i].trip_id : i \in DOMAIN list }

\* C10: tripsForClient returns exactly the trips on which the identity holds
\* a reservation (two empty lists when it holds none), and right after a
\* successful booking every traveler's lookup, in any letter case, has the
\* new trip as current.
C10_LookupReturnsHeldTrips ==
  /\ \A ln \in LastNames, id \in IdNumbers :
       LET r == TripsForClient(ln, id)
           mine == { h.trip : h \in { g \in Held : g.who = <<lower(ln), id>> } }
       IN /\ TripIdsOf(r.current) \cup TripIdsOf(r.past) = mine
          /\ mine = {} => (r.current = <<>> /\ r.past = <<>>)
  /\ (last.op = "book_trip" /\ last.status = "ok") =>
       \A i \in DOMAIN last.travelers, ln \in LastNames :
         lower(ln) = lower(last.travelers[i][2]) =>
           last.returned[1].trip_id
             \in TripIdsOf(TripsForClient(ln, last.travelers[i][3]).current)


\* The two calls are for one client identity and one connection.
SameBooking(a, b) ==
  /\ connections_equal(a.connection, b.connection)
  /\ \E i \in DOMAIN a.travelers, j \in DOMAIN b.travelers :
       Identity(a.travelers[i]) = Identity(b.travelers[j])

\* C2: of two concurrent book_trip calls for the same client identity and
\* the same connection, interleaved in any order, exactly one succeeds and
\* the other fails with AlreadyBooked.
C2_ExactlyOneConcurrentBookingSucceeds ==
  \A p, q \in 1..NumProcs :
    (p # q /\ procs[p].pc = "done" /\ procs[q].pc = "done"
       /\ SameBooking(procs[p], procs[q]))
      => {procs[p].status, procs[q].status} = {"ok", "AlreadyBooked"}


\* The entries of the list that raise in the parse loop if it gets to them.
Offending(travelers) ==
  { i \in DOMAIN travelers :
      \/ post_init(travelers[i]) # "ok"
      \/ \E j \in 1..(i - 1) : Identity(travelers[j]) = Identity(travelers[i]) }

HasInvalidEntry(travelers) ==
  \E i \in DOMAIN travelers : post_init(travelers[i]) # "ok"

HasSameIdentityPair(travelers) ==
  \E i, j \in DOMAIN travelers :
    i # j /\ Identity(travelers[i]) = Identity(travelers[j])

Passed == {"AlreadyBooked", "ok", "PersistenceFailure"}

\* C9 as stated: the checks run in the order empty, validation of every
\* entry, in-call duplicates, existing bookings; a list with an invalid entry
\* and two entries of one identity fails with InvalidTraveler wherever the
\* invalid entry is.
C9_ValidationBeforeDuplicates ==
  last.op = "book_trip" =>
    LET travelers == last.travelers
    IN IF travelers = <<>> THEN last.status = "EmptyBooking"
       ELSE IF HasInvalidEntry(travelers) THEN last.status = "InvalidTraveler"
       ELSE IF HasSameIdentityPair(travelers)
       THEN last.status = "DuplicateTravelerInBooking"
       ELSE last.status \in Passed

\* C9, amended: the empty list is rejected first; then the entries are taken
\* in order, each validated and then compared with the entries before it, and
\* the first entry that fails decides between InvalidTraveler and
\* DuplicateTravelerInBooking; existing bookings are looked at only when every
\* entry has passed.  A list with an invalid entry and two entries of one
\* identity fails with InvalidTraveler only if the invalid entry is not after
\* the second entry of the earliest such pair.
C9_FirstOffendingEntryDecides ==
  last.op = "book_trip" =>
    LET travelers == last.travelers
        bad == Offending(travelers)
    IN IF travelers = <<>> THEN last.status = "EmptyBooking"
       ELSE IF bad # {}
       THEN LET k == CHOOSE i \in bad : \A j \in bad : i <= j
            IN last.status = IF post_init(travelers[k]) # "ok"
                             THEN "InvalidTraveler"
                             ELSE "DuplicateTravelerInBooking"
       ELSE last.status \in Passed

C9_Witness ==
  /\ last.op = "book_trip"
  /\ last.status = "DuplicateTravelerInBooking"
  /\ HasInvalidEntry(last.travelers)


\* booking_timestamp of the trips of a result list, in list order.
TimesOf(list) == [i \in DOMAIN list |-> list[i].booking_timestamp]

NonIncreasing(ts) == \A i, j \in DOMAIN ts : i < j => ts[i] >= ts[j]

PolicyOf(q) == IF q.layover_policy = "" THEN "strict" ELSE q.layover_policy

\* The gap between two consecutive legs, by the rule of duration_minutes.
GapBetween(prev, next) ==
  IF next.dep_min >= prev.arr_min THEN next.dep_min - prev.arr_min
  ELSE next.dep_min + 1440 - prev.arr_min

\* Every transfer of the itinerary passes the layover policy and the minimum
\* transfer time.
TransfersPass(it, policy, min_transfer_minutes) ==
  \A i \in 2..Len(it) :
    /\ is_layover_acceptable(it[i - 1].arr_min, it[i].dep_min, policy).accepted
    /\ GapBetween(it[i - 1], it[i]) >= min_transfer_minutes

\* C12: every itinerary a search with max_stops >= 1 returns has all its
\* transfers accepted by the layover policy of the search and at least
\* min_transfer_minutes long.
C12_TransfersPassBothGates ==
  (last.op = "search" /\ last.query.max_stops >= 1) =>
    \A i \in DOMAIN last.results :
      TransfersPass(last.results[i], PolicyOf(last.query),
                    last.query.min_transfer_minutes)


\* The routes of the network, as a set.
RouteSet == { network.routes[i] : i \in DOMAIN network.routes }

\* The route passes the train-type and day filters of the query.
PassesFilters(r, q) ==
  /\ (q.train_type # "" => lower(r.train_type) = lower(q.train_type))
  /\ (q.day_contains # ""
        => contains(lower(q.day_contains), lower(r.days_of_operation)))

DepartsFrom(r, city) == city # "" => lower(r.departure_city) = lower(city)
ArrivesAt(r, city) == city # "" => lower(r.arrival_city) = lower(city)
Connects(prev, next) == lower(prev.arrival_city) = lower(next.departure_city)

\* The chains of filter-matching routes from the origin to the destination
\* of the query whose transfers pass both gates, up to the stops asked for.
QualifyingChains(q) ==
  LET R == { r \in RouteSet : PassesFilters(r, q) }
      ok(it) == TransfersPass(it, PolicyOf(q), q.min_transfer_minutes)
  IN { <<r>> : r \in { x \in R : DepartsFrom(x, q.departure_city)
                                   /\ ArrivesAt(x, q.arrival_city) } }
     \cup { it \in { <<r1, r2>> : r1 \in R, r2 \in R } :
              /\ q.max_stops >= 1
              /\ DepartsFrom(it[1], q.departure_city) /\ Connects(it[1], it[2])
              /\ ArrivesAt(it[2], q.arrival_city) /\ ok(it) }
     \cup { it \in { <<r1, r2, r3>> : r1 \in R, r2 \in R, r3 \in R } :
              /\ q.max_stops >= 2
              /\ DepartsFrom(it[1], q.departure_city) /\ Connects(it[1], it[2])
              /\ Connects(it[2], it[3]) /\ ArrivesAt(it[3], q.arrival_city)
              /\ ok(it) }

KeysOf(list) == { legs_key(list[i]) : i \in DOMAIN list }

\* C13: a search with origin, destination and max_stops >= 1 returns every
\* direct route matching the filters and every one-stop (and, for
\* max_stops >= 2, two-stop) chain of filter-matching routes from origin to
\* destination whose transfers pass the gates.
C13_SearchComplete ==
  (/\ last.op = "search" /\ last.query.max_stops >= 1
   /\ last.query.departure_city # "" /\ last.query.arrival_city # "") =>
    \A it \in QualifyingChains(last.query) : legs_key(it) \in KeysOf(last.results)


\* C14: every itinerary returned by a search with max_stops = k has between 1
\* and min(k, 2) + 1 legs (one leg when k = 0), each leg departs from the city
\* the previous leg arrives at, the first leg departs from the origin filter
\* and the last leg arrives at the destination filter (case-insensitively),
\* and every leg passes the train-type and day filters.
C14_ReturnedItinerariesWellFormed ==
  last.op = "search" =>
    \A i \in DOMAIN last.results :
      LET it == last.results[i]
          q == last.query
          most == (IF q.max_stops < 2 THEN q.max_stops ELSE 2) + 1
      IN /\ 1 <= Len(it) /\ Len(it) <= most
         /\ q.max_stops = 0 => Len(it) = 1
         /\ \A j \in 2..Len(it) : Connects(it[j - 1], it[j])
         /\ DepartsFrom(it[1], q.departure_city)
         /\ ArrivesAt(it[Len(it)], q.arrival_city)
         /\ \A j \in DOMAIN it : PassesFilters(it[j], q)

\* C14 witness: a search with a train-type filter returned a two-leg itinerary.
C14_Witness ==
  /\ last.op = "search"
  /\ last.query.train_type # ""
  /\ \E i \in DOMAIN last.results : Len(last.results[i]) = 2


\* C15: no ordered route-id sequence appears more than once in the list one
\* search call returns.
C15_NoDuplicateRouteIdSequence ==
  last.op = "search" =>
    \A i, j \in DOMAIN last.results :
      i # j => legs_key(last.results[i]) # legs_key(last.results[j])

\* C15 witness: a search returned an itinerary whose route id two matching
\* routes of the schedule carry.
C15_Witness ==
  /\ last.op = "search"
  /\ last.results # <<>>
  /\ \E i, j \in DOMAIN network.routes :
       /\ i # j
       /\ network.routes[i].route_id = network.routes[j].route_id
       /\ \A k \in {i, j} :
            /\ PassesFilters(network.routes[k], last.query)
            /\ DepartsFrom(network.routes[k], last.query.departure_city)
            /\ ArrivesAt(network.routes[k], last.query.arrival_city)


\* The sort key of an itinerary under the query.
SortKey(it, q) ==
  IF q.sort_by = "price" THEN price(it, q.travel_class)
  ELSE total_travel_minutes(it)

\* The place of a route in the schedule (its first, if it is listed twice).
PlaceOf(r) ==
  CHOOSE k \in DOMAIN network.routes :
    /\ network.routes[k] = r
    /\ \A j \in 1..(k - 1) : network.routes[j] # r

\* a is discovered before b: direct before one-stop before two-stop, and
\* among itineraries of one length in the order the loops over the schedule
\* reach them.
DiscoveredBefore(a, b) ==
  \/ Len(a) < Len(b)
  \/ /\ Len(a) = Len(b)
     /\ \E k \in DOMAIN a :
          /\ PlaceOf(a[k]) < PlaceOf(b[k])
          /\ \A j \in 1..(k - 1) : PlaceOf(a[j]) = PlaceOf(b[j])

\* C16: the list a search returns is in non-decreasing order of total
\* duration, or of fare in the requested class when sort_by is "price", and
\* itineraries with equal keys are in discovery order.
C16_SortedStable ==
  last.op = "search" =>
    \A i, j \in DOMAIN last.results :
      i < j =>
        LET a == last.results[i]
            b == last.results[j]
        IN /\ SortKey(a, last.query) <= SortKey(b, last.query)
           /\ SortKey(a, last.query) = SortKey(b, last.query)
                => DiscoveredBefore(a, b)

\* C16 witness: a search by price returned two itineraries with equal fares
\* and one with a different fare.
C16_Witness ==
  /\ last.op = "search"
  /\ last.query.sort_by = "price"
  /\ \E i, j, k \in DOMAIN last.results :
       /\ i # j
       /\ SortKey(last.results[i], last.query) = SortKey(last.results[j], last.query)
       /\ SortKey(last.results[k], last.query) # SortKey(last.results[i], last.query)


\* The gap from an arrival to a departure by the rule of the time model.
GapOf(arrival, departure) ==
  IF departure >= arrival THEN departure - arrival
  ELSE departure + 1440 - arrival

Daytime(arrival) == 360 <= arrival % 1440 /\ arrival % 1440 < 1320

MaxGap(arrival, policy) ==
  IF Daytime(arrival) THEN (IF policy = "lenient" THEN 180 ELSE 120) ELSE 30

\* C17: the layover policy accepts exactly when 15 <= gap <= max, with max
\* 120 (strict) or 180 (lenient) for an arrival in [06:00, 22:00) and 30
\* otherwise; it rejects a gap below 15 as too short and a gap above max as
\* too long, naming daytime or after-hours.
C17_LayoverBounds ==
  last.op = "is_layover_acceptable" =>
    LET gap == GapOf(last.arrival, last.departure)
        most == MaxGap(last.arrival, last.policy)
    IN /\ last.accepted <=> (15 <= gap /\ gap <= most)
       /\ last.accepted => last.reason.kind = "OK"
       /\ gap < 15 => last.reason.kind = "Layover too short"
       /\ (gap >= 15 /\ gap > most) =>
            /\ last.reason.kind = "Layover too long"
            /\ last.reason.context =
                 (IF Daytime(last.arrival) THEN "daytime" ELSE "after-hours")

\* C17 witness: an arrival at exactly 22:00 with a 31-minute gap was rejected
\* as too long for after-hours.
C17_Witness ==
  /\ last.op = "is_layover_acceptable"
  /\ last.arrival % 1440 = 1320
  /\ last.departure - last.arrival = 31
  /\ ~last.accepted
  /\ last.reason.context = "after-hours"

\* C18: the gap between an arrival and a following departure, and the
\* duration of a route, are never negative, day offsets included.
C18_GapNeverNegative ==
  /\ last.op = "is_layover_acceptable" => last.reason.gap >= 0
  /\ last.op = "TrainRoute" => last.route.duration_min >= 0

\* The transfers of the list that the single-transfer policy rejects.
Failing(leg_times, policy) ==
  { i \in DOMAIN leg_times :
      ~is_layover_acceptable(leg_times[i][1], leg_times[i][2], policy).accepted }

\* C19: the multi-stop validator accepts exactly when every transfer passes
\* the single-transfer policy; otherwise it returns the rejection of the
\* first failing transfer, with that transfer's 1-based position.
C19_FirstFailingTransfer ==
  last.op = "validate_multi_stop_connection" =>
    LET bad == Failing(last.leg_times, last.policy)
    IN IF bad = {} THEN last.accepted /\ last.reason.kind = "OK"
       ELSE LET k == CHOOSE i \in bad : \A j \in bad : i <= j
            IN /\ ~last.accepted
               /\ last.transfer = k
               /\ last.reason =
                    is_layover_acceptable(last.leg_times[k][1],
                                          last.leg_times[k][2],
                                          last.policy).reason

\* C19 witness: the second transfer was reported although a later one fails
\* too.
C19_Witness ==
  /\ last.op = "validate_multi_stop_connection"
  /\ last.transfer = 2
  /\ 3 \in Failing(last.leg_times, last.policy)

\* The searches of the claim: one per policy, all else equal.
UnderPolicy(q, policy) == [q EXCEPT !.layover_policy = policy]

IdentityOf(c) == <<lower(c.last_name), c.id_number>>

\* C21: client equality is an equivalence relation decided by (lower-cased
\* last name, id number) alone: first name and age play no part, equal
\* clients hash alike, and a set of clients holds one member per identity.
C21_ClientEqualityByIdentity ==
  last.op = "Client.__eq__" =>
    /\ last.ab <=> (IdentityOf(last.a) = IdentityOf(last.b))
    /\ last.aa
    /\ last.ab <=> last.ba
    /\ (last.ab /\ last.bc) => last.ac
    /\ last.ab => last.hash_a = last.hash_b
    /\ \A x \in last.set, y \in last.set :
         IdentityOf(x) = IdentityOf(y) => x = y

\* C21 witness: two clients differing in first name, age and the case of the
\* last name compared equal, and the set kept one of them.
C21_Witness ==
  /\ last.op = "Client.__eq__"
  /\ last.ab
  /\ last.a.first_name # last.b.first_name
  /\ last.a.age # last.b.age
  /\ last.a.last_name # last.b.last_name
  /\ Cardinality(last.set) < 3

\* C22: two itineraries are equal exactly when they have the same number of
\* legs and the same route id at every position; the relation is reflexive
\* and symmetric, and the database-backed comparison of a trip's stored legs
\* with an itinerary decides the same.
C22_ConnectionsEqualByRouteIds ==
  last.op = "_connections_equal" =>
    /\ last.ab <=> (/\ Len(last.a) = Len(last.b)
                    /\ \A i \in DOMAIN last.a : last.a[i] = last.b[i])
    /\ last.aa
    /\ last.ab <=> last.ba
    /\ last.stored = last.a
    /\ last.ab_v3 <=> last.ab

\* C22 witness: two itineraries with the same route ids in a different order
\* were found unequal by both ledgers.
C22_Witness ==
  /\ last.op = "_connections_equal"
  /\ Len(last.a) = 2 /\ Len(last.b) = 2
  /\ last.a[1] = last.b[2] /\ last.a[2] = last.b[1] /\ last.a[1] # last.a[2]
  /\ ~last.ab /\ ~last.ab_v3

\* A direct route of the network joins the two cities.
ConnectionExists(departure, arrival) ==
  /\ departure # "" /\ arrival # ""
  /\ \E i \in DOMAIN network.routes :
       /\ DepartsFrom(network.routes[i], departure)
       /\ ArrivesAt(network.routes[i], arrival)

\* C23: start_booking(departure, arrival) over a network with a connection
\* between the two cities leaves the machine in DISPLAYING_RESULTS with a
\* non-empty context.connections.
C23_StartBookingDisplaysResults ==
  (/\ last.op = "start_booking"
   /\ ConnectionExists(context.departure_city, context.arrival_city))
    => /\ context.current_state = "DISPLAYING_RESULTS"
       /\ context.connections # <<>>

\* The trips the ledger holds, with the number of tickets of each.
TicketCounts ==
  IF ledger = "mem"
  THEN { <<id, Len(trips[id].reservations)>> : id \in DOMAIN trips }
  ELSE { <<t.trip_id,
           Cardinality({ tk \in db.tickets : tk.trip_id = t.trip_id })>> :
         t \in db.trips }

\* C24: after start_booking between two connected cities, the calls
\* select_connection(0), add_travelers(valid travelers) and three
\* execute_current_state move the machine through ENTERING_TRAVELERS,
\* VALIDATING_TRAVELERS, CREATING_RESERVATION, DISPLAYING_CONFIRMATION and
\* back to IDLE; then is_complete() holds, context.trip_id is set and the
\* ledger holds exactly one trip with one ticket per traveler.
C24_BookingFlowCompletes ==
  /\ (last.op = "select_connection" /\ calls = 2)
       => context.current_state = "ENTERING_TRAVELERS"
  /\ (last.op = "add_travelers" /\ calls = 3)
       => context.current_state = "VALIDATING_TRAVELERS"
  /\ (last.op = "execute_current_state" /\ calls = 4)
       => context.current_state = "CREATING_RESERVATION"
  /\ (last.op = "execute_current_state" /\ calls = 5)
       => context.current_state = "DISPLAYING_CONFIRMATION"
  /\ (last.op = "execute_current_state" /\ calls = 6)
       => /\ context.current_state = "IDLE"
          /\ is_complete(context)
          /\ context.trip_id # <<>>
          /\ \E id \in { tc[1] : tc \in TicketCounts } :
               TicketCounts = { <<id, Len(context.travelers)>> }

\* The traveler list breaks a rule: an entry is invalid, two entries share
\* an identity, or a traveler holds a reservation on the selected connection.
ViolatesRule(travelers, connection) ==
  /\ travelers # <<>>
  /\ \/ ~WellFormed(travelers)
     \/ HoldsAlready(travelers, route_ids_of(connection))

\* C25: execute_current_state in VALIDATING_TRAVELERS with a traveler list
\* that breaks a rule raises no exception, records a validation error,
\* returns to ENTERING_TRAVELERS and writes nothing to the ledger.
C25_ValidationFailureRecovers ==
  [][(/\ context.current_state = "VALIDATING_TRAVELERS"
      /\ last'.op = "execute_current_state"
      /\ calls' = calls + 1
      /\ ViolatesRule(context.travelers, context.selected_connection))
       => /\ last'.raised = ""
          /\ context'.validation_errors # <<>>
          /\ context'.current_state = "ENTERING_TRAVELERS"
          /\ UNCHANGED <<trips, client_trips_index, clients, db>>]_vars

\* C26: cancel() moves the machine to IDLE from whatever state it is in and
\* changes no trip, ticket or client of the ledger.
C26_CancelReturnsToIdle ==
  [][(last'.op = "cancel" /\ calls' = calls + 1)
       => /\ context'.current_state = "IDLE"
          /\ UNCHANGED <<trips, client_trips_index, clients, db>>]_vars

\* C26 witness: cancel() was called in HANDLING_ERROR, after a booking had
\* reached the ledger, and the machine is in IDLE.
C26_Witness ==
  /\ last.op = "cancel"
  /\ last.before = "HANDLING_ERROR"
  /\ trips # <<>>
  /\ context.current_state = "IDLE"

\* The book_trip calls that created the trip with this id.
CallsOf(trip_id) ==
  { p \in 1..NumProcs :
      IF ledger = "mem"
      THEN procs[p].trip # <<>> /\ procs[p].trip[1].trip_id = trip_id
      ELSE procs[p].r.trip_id = trip_id }

\* C27: whenever a reader gets a trip, also while a book_trip call is between
\* two of its storage writes, the trip has the complete ordered leg list of
\* its booking and at least one reservation.
C27_ReaderSeesWholeTrips ==
  (last.op = "get_trip_by_id" /\ last.pc = "done" /\ last.returned # <<>>) =>
    LET trip == last.returned[1]
    IN /\ trip.reservations # <<>>
       /\ trip.connection # <<>>
       /\ \E p \in CallsOf(trip.trip_id) : trip.connection = procs[p].connection

\* What a lookup shows of a list of trips: per trip its route-id sequence and
\* the identities of its clients.
Shown(list) ==
  { <<list[i].connection,
      { IdentityOf(list[i].reservations[k].client) :
          k \in DOMAIN list[i].reservations }>> : i \in DOMAIN list }

\* C28: the in-memory and the database-backed ledger, given the same calls,
\* accept and reject the same book_trip calls for the same reasons, and
\* tripsForClient shows trips with the same route-id sequences and client
\* identities in both.
C28_LedgersAgree ==
  /\ last.op = "book_trip on both" => last.mem = last.db
  /\ \A last_name \in LastNames, id_number \in IdNumbers :
       LET m == get_trips_by_client(last_name, id_number)
           d == get_trips_by_client_v3(db, last_name, id_number)
       IN /\ Shown(m.current) = Shown(d.current)
          /\ Shown(m.past) = Shown(d.past)

\* ------------------------------------------------------------------ C29
LegsKeys(results) == [i \in DOMAIN results |-> legs_key(results[i])]

RECURSIVE SumOf(_)
SumOf(numbers) ==
  IF numbers = <<>> THEN 0 ELSE Head(numbers) + SumOf(Tail(numbers))

\* Class names that start with "first" once lower-cased, and those that start
\* with "first" as written.
FirstWhenLowered == {"first", "First", "FIRST class", "first class"}
FirstAsWritten == {"first", "first class"}

RatesOf(it, names, travel_class) ==
  [i \in DOMAIN it |-> IF travel_class \in names THEN it[i].first_class_rate
                        ELSE it[i].second_class_rate]

\* C30: the fare is the sum over the legs of the first-class rate when the
\* lower-cased class name starts with "first" and of the second-class rate
\* for every other class name, and the fare of a connection is the sum of the
\* fares of its legs taken alone.
C30_FareSumsLegRates ==
  last.op = "price" =>
    /\ last.returned = SumOf(RatesOf(last.itinerary, FirstWhenLowered, last.travel_class))
    /\ last.returned = SumOf(last.single)

C30_Witness ==
  /\ last.op = "price"
  /\ Len(last.itinerary) = 3
  /\ last.travel_class = "FIRST class"
  /\ last.returned = 150 + 100 + 40

\* C30 as stated: first class only when the name as written starts with
\* "first".
C30_FareByWrittenPrefix ==
  last.op = "price" =>
    /\ last.returned = SumOf(RatesOf(last.itinerary, FirstAsWritten, last.travel_class))
    /\ last.returned = SumOf(last.single)

\* ------------------------------------------------------------------ C31
Malformed(row) ==
  row.departure_time.tokens = <<>> \/ row.arrival_time.tokens = <<>>

MalformedIds(rows) == { rows[i].route_id : i \in { j \in DOMAIN rows : Malformed(rows[j]) } }

LoadedIds ==
  { network.routes[i].route_id : i \in DOMAIN network.routes } \cup db.routes

\* C31: loading a schedule file in which a row's time text holds no number
\* fails with an error, and no such row is in the routes the network or the
\* database holds afterwards.
C31_MalformedTimeFailsLoad ==
  last.op \in {"from_csv", "load_routes_from_csv"} /\ MalformedIds(last.rows) # {} =>
    /\ last.raised # ""
    /\ \A row \in { last.rows[i] : i \in DOMAIN last.rows } :
         Malformed(row) => row.route_id \notin LoadedIds

\* ------------------------------------------------------------------ C32
\* The step is a run of _handle_creating.
CreatingStep ==
  /\ calls' = calls + 1
  /\ last'.op = "execute_current_state"
  /\ last'.before = "CREATING_RESERVATION"

StoredTripIds == (DOMAIN trips) \cup { t.trip_id : t \in db.trips }

\* C32: when _handle_creating ends in HANDLING_ERROR the ledger holds no trip,
\* leg or ticket of that attempt, and when the ledger stored a trip the
\* machine is in DISPLAYING_CONFIRMATION with context.trip_id that trip's id.
C32_CreatingFailureLeavesNoTrip ==
  [][CreatingStep =>
       /\ context'.current_state = "HANDLING_ERROR" =>
            /\ trips' = trips
            /\ db'.trips = db.trips
            /\ db'.trip_legs = db.trip_legs
            /\ db'.tickets = db.tickets
       /\ StoredTripIds' # StoredTripIds =>
            /\ context'.current_state = "DISPLAYING_CONFIRMATION"
            /\ context'.trip_id # <<>>
            /\ StoredTripIds' = StoredTripIds \cup {context'.trip_id[1]}]_vars

\* ------------------------------------------------------------------ C33
\* C33: the machine is never in VALIDATING_TRAVELERS or CREATING_RESERVATION
\* while context.selected_connection is None.
C33_NoBookingWithoutConnection ==
  context.current_state \in {"VALIDATING_TRAVELERS", "CREATING_RESERVATION"} =>
    context.selected_connection # NoConnection

\* ------------------------------------------------------------------ C34
SameIdentity(last_name, id_number, row) ==
  lower(row.last_name) = lower(last_name) /\ row.id_number = id_number

\* C34: get_or_create_client returns, for an identity (last name in any
\* letter case, id number), the id of the one client record of that identity,
\* and the clients table never holds two records of one identity.
C34_OneClientPerIdentity ==
  /\ \A r \in db.clients, q \in db.clients :
       SameIdentity(r.last_name, r.id_number, q) => r = q
  /\ last.op = "get_or_create_client" /\ last.ok =>
       \A r \in db.clients :
         SameIdentity(last.args[2], last.args[3], r) => r.client_id = last.id

\* ------------------------------------------------------------------ C36
\* The step is a call of the named storage operation.
StoreStep(op) == calls' = calls + 1 /\ last'.op = op

TripExists(d, trip_id) == \E t \in d.trips : t.trip_id = trip_id
ClientExists(d, client_id) == \E c \in d.clients : c.client_id = client_id

\* C36: every ticket and every trip leg refers to a stored trip; create_ticket
\* for a trip or client that is not stored fails and stores nothing; deleting
\* a trip removes its tickets and legs.
C36_TicketsAndLegsReferToTrips ==
  [][/\ \A k \in db'.tickets : TripExists(db', k.trip_id) /\ ClientExists(db', k.client_id)
     /\ \A l \in db'.trip_legs : TripExists(db', l.trip_id)
     /\ StoreStep("create_ticket")
          /\ ~(TripExists(db, last'.args[2]) /\ ClientExists(db, last'.args[1]))
          => ~last'.ok /\ db' = db
     /\ StoreStep("delete_trip") =>
          /\ ~TripExists(db', last'.args[1])
          /\ \A k \in db'.tickets : k.trip_id # last'.args[1]
          /\ \A l \in db'.trip_legs : l.trip_id # last'.args[1]]_vars

C36_Witness ==
  /\ last.op = "delete_trip"
  /\ db.seq.tickets >= 1
  /\ db.tickets = {}
  /\ db.trip_legs = {}
  /\ db.trips = {}
  /\ db.clients # {}

\* ------------------------------------------------------------------ C35
TicketPairs(trip) ==
  { <<trip.reservations[i].ticket.ticket_id, IdentityOf(trip.reservations[i].client)>> :
      i \in DOMAIN trip.reservations }

LegDurations(it) == [i \in DOMAIN it |-> it[i].duration_min]

InterLegGaps(it) ==
  [i \in 1..(Len(it) - 1) |-> duration_minutes(it[i].arr_min, it[i + 1].dep_min)]

\* C37: the total duration of an itinerary is the sum of its legs' durations
\* plus the sum of its inter-leg gaps, its transfer time is the sum of the
\* gaps alone, and a single-leg itinerary has transfer time 0 and the
\* duration of its route.
C37_DurationIsLegsPlusGaps ==
  last.op = "total_travel_minutes" =>
    LET it == last.itinerary
    IN /\ last.total = SumOf(LegDurations(it)) + SumOf(InterLegGaps(it))
       /\ last.transfer = SumOf(InterLegGaps(it))
       /\ last.total - last.transfer = SumOf(LegDurations(it))
       /\ Len(it) = 1 => last.transfer = 0 /\ last.total = it[1].duration_min

C37_Witness ==
  /\ last.op = "total_travel_minutes"
  /\ last.itinerary = <<T2, U6, T5>>
  /\ last.transfer = 20 + 120
  /\ last.total = 240 + 160 + 240 + 140

\* ------------------------------------------------------------------ C38
IndexedTripIds(key) ==
  IF key \in DOMAIN client_trips_index THEN client_trips_index[key] ELSE {}

HoldersOf(trip) == { IdentityOf(trip.reservations[i].client) : i \in DOMAIN trip.reservations }

AllKeys ==
  (DOMAIN client_trips_index)
    \cup UNION { HoldersOf(trips[id]) : id \in DOMAIN trips }

AllTripIds ==
  (DOMAIN trips) \cup UNION { client_trips_index[k] : k \in DOMAIN client_trips_index }

\* C38: in the in-memory ledger an identity key maps to a trip id exactly when
\* that trip is stored and has a reservation for a client of that identity.
C38_IndexMatchesTrips ==
  \A key \in AllKeys, id \in AllTripIds :
    id \in IndexedTripIds(key) <=>
      id \in DOMAIN trips /\ key \in HoldersOf(trips[id])

\* ------------------------------------------------------------------ C39
KeySet(results) == { legs_key(results[i]) : i \in DOMAIN results }

\* C39: with the other arguments fixed, every route-id sequence a search
\* returns is also returned with max_stops one higher, and from max_stops = 2
\* on one more stop adds nothing.
C39_SearchMonotoneInMaxStops ==
  last.op = "search" =>
    LET found == KeySet(last.results)
        more == KeySet(search(network,
                              [last.query EXCEPT !.max_stops = @ + 1]).results)
    IN /\ found \subseteq more
       /\ last.query.max_stops >= 2 => more = found

C39_Witness ==
  /\ last.op = "search"
  /\ last.query.max_stops = 1
  /\ \E i \in DOMAIN last.results : Len(last.results[i]) = 2
  /\ \E i \in DOMAIN last.results : Len(last.results[i]) = 1
  /\ \E it \in KeySet(search(network, [last.query EXCEPT !.max_stops = 2]).results) :
       Len(it) = 3

====
